---- MODULE Spec2Model ----
(***************************************************************************)
(* Model of the layout engine of koshyviv/layoutoptimizer:                 *)
(*   client/src/lib/grid.ts       occupancy grid, path mask, legality      *)
(*   client/src/lib/score.ts      score engine                             *)
(*   client/src/lib/optimizer.ts  bounded local search                     *)
(*                                                                         *)
(* Numbers.  The code computes on IEEE doubles holding metres.  The model  *)
(* computes exactly, on integers counting ticks, with Tenth ticks to 0.1 m *)
(* and Metre ticks to the metre.  Tenth is 2 to the largest iteration      *)
(* budget, so that the halving done by the pullTogether move stays exact   *)
(* over a whole run whose inputs are multiples of 0.1 m.  Rounding of      *)
(* doubles is outside the model.                                           *)
(***************************************************************************)
EXTENDS Integers, Sequences, FiniteSets, TLC

\* ------------------------------------------------------------------ bounds
\* The largest opts.iterations a modelled run is given explicitly.
MaxIterations == 3
\* The iteration budget of each of the two interleaved runs (SpecPair).
PairIterations == 2
\* The largest maxRadius, in cells, handed to nudgeToNearestLegal.
MaxRadiusCells == 2

\* ------------------------------------------------------------------- units
Tenth == 2 ^ (IF MaxIterations > PairIterations THEN MaxIterations ELSE PairIterations)
Metre == 10 * Tenth

Max2(a, b) == IF a >= b THEN a ELSE b
Min2(a, b) == IF a <= b THEN a ELSE b
Abs(a) == IF a >= 0 THEN a ELSE -a
\* Math.floor(a / b) and Math.ceil(a / b) for b > 0
Floor(a, b) == a \div b
Ceil(a, b) == -((-a) \div b)

Rect(x, y, w, h) == [x |-> x, y |-> y, w |-> w, h |-> h]
RectOf(b) == [x |-> b.x, y |-> b.y, w |-> b.w, h |-> b.h]

\* ------------------------------------------------------- grid.ts GridIndex
\* Math.max(0.05, opts.cellSize): 0.05 m in ticks
MinCellSize == Tenth \div 2

\* new GridIndex(opts) / new PathMask(opts): data is the Uint8Array, indexed
\* from 0, one byte per cell, row after row.
GridIndex(opts) ==
    LET cs == Max2(MinCellSize, opts.cellSize)
        cols == Ceil(opts.width, cs)
        rows == Ceil(opts.height, cs)
    IN  [cellSize |-> cs, cols |-> cols, rows |-> rows,
         data |-> [k \in 0..(cols * rows - 1) |-> 0]]

\* new Uint8Array(length) throws a RangeError for a negative length; the
\* constructor has no handler, so the error leaves it and no grid exists.
GridIndexThrows(opts) ==
    LET cs == Max2(MinCellSize, opts.cellSize)
    IN  Ceil(opts.width, cs) * Ceil(opts.height, cs) < 0

idx(g, c, r) == r * g.cols + c

inBounds(g, c, r) == c >= 0 /\ r >= 0 /\ c < g.cols /\ r < g.rows

\* A set that trusts its caller: the index is used as it comes.  A typed
\* array ignores a store outside its length, and a store inside it lands in
\* whatever row the index falls in.
setUnchecked(g, c, r, value) ==
    IF idx(g, c, r) \in DOMAIN g.data
    THEN [g EXCEPT !.data[idx(g, c, r)] = IF value # 0 THEN 1 ELSE 0]
    ELSE g

set(g, c, r, value) ==
    IF ~inBounds(g, c, r) THEN g
    ELSE [g EXCEPT !.data[idx(g, c, r)] = IF value # 0 THEN 1 ELSE 0]

\* A get that reads a cell outside the grid as free.
getOutsideFree(g, c, r) ==
    IF ~inBounds(g, c, r) THEN 0 ELSE g.data[idx(g, c, r)]

get(g, c, r) ==
    IF ~inBounds(g, c, r) THEN 1 ELSE g.data[idx(g, c, r)]

\* The index ranges fillRect and anyOccupied loop over: [c0, c1) x [r0, r1)
CellRange(g, rect) ==
    [c0 |-> Floor(rect.x, g.cellSize),
     r0 |-> Floor(rect.y, g.cellSize),
     c1 |-> Ceil(rect.x + rect.w, g.cellSize),
     r1 |-> Ceil(rect.y + rect.h, g.cellSize)]

\* The cells of a range in the order of the two nested loops (rows outside).
CellSeq(cr) ==
    LET nc == cr.c1 - cr.c0
        nr == cr.r1 - cr.r0
    IN  IF nc <= 0 \/ nr <= 0 THEN << >>
        ELSE [k \in 1..(nc * nr) |->
                 <<cr.c0 + ((k - 1) % nc), cr.r0 + ((k - 1) \div nc)>>]

RECURSIVE setAll(_, _, _)
setAll(g, cells, value) ==
    IF cells = << >> THEN g
    ELSE setAll(set(g, Head(cells)[1], Head(cells)[2], value), Tail(cells), value)

\* A fill of the cells a rect covers whole: the range ends at the floor.
fillRectWhole(g, rect, value) ==
    LET cr == CellRange(g, rect)
    IN  setAll(g, CellSeq([cr EXCEPT !.c1 = Floor(rect.x + rect.w, g.cellSize),
                                     !.r1 = Floor(rect.y + rect.h, g.cellSize)]), value)

fillRect(g, rect, value) == setAll(g, CellSeq(CellRange(g, rect)), value)

anyOccupied(g, rect) ==
    LET cr == CellRange(g, rect)
    IN  \E r \in cr.r0..(cr.r1 - 1) : \E c \in cr.c0..(cr.c1 - 1) : get(g, c, r) # 0

\* -------------------------------------------------------- grid.ts PathMask
RECURSIVE addPolyline(_, _, _)
\* A corridor of the first segment only.
addPolylineFirstSegment(g, points, width) ==
    IF Len(points) < 2 THEN g
    ELSE LET half == Max2(0, width \div 2)
             p0 == points[1]
             p1 == points[2]
             minX == Min2(p0[1], p1[1]) - half
             maxX == Max2(p0[1], p1[1]) + half
             minY == Min2(p0[2], p1[2]) - half
             maxY == Max2(p0[2], p1[2]) + half
         IN  fillRect(g, Rect(minX, minY, maxX - minX, maxY - minY), 1)

addPolyline(g, points, width) ==
    IF Len(points) < 2 THEN g
    ELSE LET half == Max2(0, width \div 2)
             p0 == points[1]
             p1 == points[2]
             minX == Min2(p0[1], p1[1]) - half
             maxX == Max2(p0[1], p1[1]) + half
             minY == Min2(p0[2], p1[2]) - half
             maxY == Max2(p0[2], p1[2]) + half
         IN  addPolyline(fillRect(g, Rect(minX, minY, maxX - minX, maxY - minY), 1),
                         Tail(points), width)

\* ------------------------------------------------- grid.ts geometry helpers
inflate(r, m) == [x |-> r.x - m, y |-> r.y - m, w |-> r.w + 2 * m, h |-> r.h + 2 * m]

aabbOverlap(a, b) ==
    ~(a.x + a.w <= b.x \/ b.x + b.w <= a.x \/ a.y + a.h <= b.y \/ b.y + b.h <= a.y)

inside(r, bounds) ==
    /\ r.x >= bounds.x
    /\ r.y >= bounds.y
    /\ r.x + r.w <= bounds.x + bounds.w
    /\ r.y + r.h <= bounds.y + bounds.h

\* ------------------------------------------- grid.ts checkPlacementLegality
\* A checker that looks at the path before the site.
checkPlacementLegalityPathFirst(candidate, others, pathMask, opts) ==
    IF anyOccupied(pathMask, candidate)
    THEN [ok |-> FALSE, reason |-> "overlaps path"]
    ELSE IF ~inside(candidate, opts.site)
    THEN [ok |-> FALSE, reason |-> "outside site bounds"]
    ELSE IF anyOccupied(pathMask, inflate(candidate, opts.minAisle))
    THEN [ok |-> FALSE, reason |-> "violates aisle clearance"]
    ELSE IF \E k \in DOMAIN others :
                aabbOverlap(inflate(candidate, opts.minAisle), inflate(others[k], 0))
    THEN [ok |-> FALSE, reason |-> "too close to another block"]
    ELSE [ok |-> TRUE]

\* The reason strings, without the "<minAisle> m" the code appends to two of
\* them.  A passing result is the object { ok: true }: it has no reason.
checkPlacementLegality(candidate, others, pathMask, opts) ==
    IF ~inside(candidate, opts.site)
    THEN [ok |-> FALSE, reason |-> "outside site bounds"]
    ELSE IF anyOccupied(pathMask, candidate)
    THEN [ok |-> FALSE, reason |-> "overlaps path"]
    ELSE IF anyOccupied(pathMask, inflate(candidate, opts.minAisle))
    THEN [ok |-> FALSE, reason |-> "violates aisle clearance"]
    ELSE IF \E k \in DOMAIN others :
                aabbOverlap(inflate(candidate, opts.minAisle), inflate(others[k], 0))
    THEN [ok |-> FALSE, reason |-> "too close to another block"]
    ELSE [ok |-> TRUE]

\* ---------------------------------------------- optimizer.ts isPlanLegal
\* A gate whose pair test inflates neither block.
isPlanLegalBareRects(blocks, ctx, mask) ==
    /\ \A i \in DOMAIN blocks :
          /\ inside(RectOf(blocks[i]), ctx.site)
          /\ ~anyOccupied(mask, RectOf(blocks[i]))
          /\ ~anyOccupied(mask, inflate(RectOf(blocks[i]), ctx.minAisle))
    /\ \A i \in DOMAIN blocks : \A j \in DOMAIN blocks :
          j > i => ~aabbOverlap(RectOf(blocks[i]), RectOf(blocks[j]))

\* blocks: a sequence of block values; mask: ctx.pathMask
isPlanLegal(blocks, ctx, mask) ==
    /\ \A i \in DOMAIN blocks :
          /\ inside(RectOf(blocks[i]), ctx.site)
          /\ ~anyOccupied(mask, RectOf(blocks[i]))
          /\ ~anyOccupied(mask, inflate(RectOf(blocks[i]), ctx.minAisle))
    /\ \A i \in DOMAIN blocks : \A j \in DOMAIN blocks :
          j > i => ~aabbOverlap(inflate(RectOf(blocks[i]), ctx.minAisle), RectOf(blocks[j]))

\* ------------------------------------------------------------- score.ts
\* DEFAULT_WEIGHTS
lambdaPath == 1000000
lambdaClear == 500000
lambdaAdj == 1000

DefaultWeight(k) ==
    CASE k = "lambdaPath" -> lambdaPath
      [] k = "lambdaClear" -> lambdaClear
      [] k = "lambdaAdj" -> lambdaAdj

\* Weights without the defaults under them: a weight the caller leaves out
\* counts for nothing.
WeightNoDefaults(ctx, k) == IF k \in DOMAIN ctx.weights THEN ctx.weights[k] ELSE 0

\* Weights that ignore what the caller overrides.
WeightDefaultsOnly(ctx, k) == DefaultWeight(k)

\* W = { ...DEFAULT_WEIGHTS, ...(ctx.weights || {}) }: ctx.weights is a
\* function on the keys it overrides (on none when absent).
Weight(ctx, k) == IF k \in DOMAIN ctx.weights THEN ctx.weights[k] ELSE DefaultWeight(k)

\* A distance between the corners (x, y) instead of the centres.
manhattanDistanceCorners(a, b) == Abs(a.x - b.x) + Abs(a.y - b.y)

\* w and h are multiples of Tenth in every modelled input, so the halves
\* are exact.
manhattanDistance(a, b) ==
    LET ax == a.x + a.w \div 2
        ay == a.y + a.h \div 2
        bx == b.x + b.w \div 2
        by == b.y + b.h \div 2
    IN  Abs(ax - bx) + Abs(ay - by)

RECURSIVE SumOver(_, _)
\* the sum of term[e] over the elements e of the finite set S
SumOver(S, term) ==
    IF S = {} THEN 0
    ELSE LET e == CHOOSE x \in S : TRUE
         IN  term[e] + SumOver(S \ {e}, term)

\* idToBlock[b.id] = b, block after block: the last block with the id wins
HasId(blocks, id) == \E k \in DOMAIN blocks : blocks[k].id = id
idToBlock(blocks, id) ==
    blocks[CHOOSE k \in DOMAIN blocks :
              /\ blocks[k].id = id
              /\ \A m \in DOMAIN blocks : blocks[m].id = id => m <= k]

\* blocks.find(b => b.key === cat): the first block with the category
HasKey(blocks, cat) == \E k \in DOMAIN blocks : blocks[k].key = cat
\* A lookup that lets a later block of the category replace an earlier one.
findKeyLast(blocks, cat) ==
    blocks[CHOOSE k \in DOMAIN blocks :
              /\ blocks[k].key = cat
              /\ \A m \in DOMAIN blocks : blocks[m].key = cat => m <= k]

findKey(blocks, cat) ==
    blocks[CHOOSE k \in DOMAIN blocks :
              /\ blocks[k].key = cat
              /\ \A m \in DOMAIN blocks : blocks[m].key = cat => k <= m]

\* ctx.flows: the entries <<fromId, toId, rate>> (one per directed pair);
\* ctx.adjacency: the entries <<catA, catB, weight>>, the key "catA-catB"
\* split at its dash.  NoTable is the property left out.
Table(entries) == [given |-> TRUE, entries |-> entries]
NoTable == [given |-> FALSE, entries |-> {}]

mhcOf(blocks, ctx) ==
    IF ~ctx.flows.given THEN 0
    ELSE SumOver(ctx.flows.entries,
           [e \in ctx.flows.entries |->
              IF e[1] = e[2] THEN 0
              ELSE IF ~HasId(blocks, e[1]) \/ ~HasId(blocks, e[2]) THEN 0
              ELSE e[3] * manhattanDistance(idToBlock(blocks, e[1]), idToBlock(blocks, e[2]))])

overlapOf(blocks, mask) ==
    SumOver(DOMAIN blocks,
            [i \in DOMAIN blocks |-> IF anyOccupied(mask, RectOf(blocks[i])) THEN 1 ELSE 0])

clearViolOf(blocks, ctx, mask) ==
    SumOver(DOMAIN blocks,
      [i \in DOMAIN blocks |->
         (IF anyOccupied(mask, Rect(blocks[i].x - ctx.minAisle, blocks[i].y - ctx.minAisle,
                                    blocks[i].w + 2 * ctx.minAisle, blocks[i].h + 2 * ctx.minAisle))
          THEN 1 ELSE 0)
         + Cardinality({j \in DOMAIN blocks :
              /\ j > i
              /\ LET a == blocks[i]
                     b == blocks[j]
                     ax0 == a.x - ctx.minAisle
                     ay0 == a.y - ctx.minAisle
                     aw == a.w + 2 * ctx.minAisle
                     ah == a.h + 2 * ctx.minAisle
                     overlapX == ~(ax0 + aw <= b.x \/ b.x + b.w <= ax0)
                     overlapY == ~(ay0 + ah <= b.y \/ b.y + b.h <= ay0)
                 IN  overlapX /\ overlapY})])

adjHitsOf(blocks, ctx) ==
    IF ~ctx.adjacency.given THEN 0
    ELSE SumOver(ctx.adjacency.entries,
           [e \in ctx.adjacency.entries |->
              IF ~HasKey(blocks, e[1]) \/ ~HasKey(blocks, e[2]) THEN 0
              ELSE LET a == findKey(blocks, e[1])
                       b == findKey(blocks, e[2])
                       dist == manhattanDistance(a, b)
                       near == dist <= Max2(Max2(a.w, a.h), Max2(b.w, b.h)) * 3
                   IN  (IF near THEN 1 ELSE 0) * e[3]])

\* A total that takes the clearance term for a reward, as the adjacency
\* term is.
scoreLayoutClearRewarded(blocks, ctx, mask) ==
    LET mhc == mhcOf(blocks, ctx)
        overlap == overlapOf(blocks, mask)
        clearViol == clearViolOf(blocks, ctx, mask)
        adjHits == adjHitsOf(blocks, ctx)
    IN  [mhc |-> mhc, overlapWithPath |-> overlap, clearanceViolations |-> clearViol,
         adjacencyHits |-> adjHits,
         total |-> mhc + Metre * (Weight(ctx, "lambdaPath") * overlap
                                  - Weight(ctx, "lambdaClear") * clearViol
                                  - Weight(ctx, "lambdaAdj") * adjHits)]

\* mhc and total are in ticks (Metre times the code's number); the three
\* counts are the code's.
scoreLayout(blocks, ctx, mask) ==
    LET mhc == mhcOf(blocks, ctx)
        overlap == overlapOf(blocks, mask)
        clearViol == clearViolOf(blocks, ctx, mask)
        adjHits == adjHitsOf(blocks, ctx)
    IN  [mhc |-> mhc, overlapWithPath |-> overlap, clearanceViolations |-> clearViol,
         adjacencyHits |-> adjHits,
         total |-> mhc + Metre * (Weight(ctx, "lambdaPath") * overlap
                                  + Weight(ctx, "lambdaClear") * clearViol
                                  - Weight(ctx, "lambdaAdj") * adjHits)]

\* ------------------------------------------------------------------ state
VARIABLES
    heap,      \* the block objects: heap[region][k]; an address is <<region, k>>.
               \* Region 0 holds the caller's blocks, region r what run r allocates.
    initial,   \* the Plan handed to optimizeHeuristic: [id, blocks (addresses)]
    ctx,       \* the ScoreContext, but for its pathMask
    pathMask,  \* the PathMask object ctx.pathMask refers to
    runs,      \* runs[r]: the locals of call r of optimizeHeuristic
    solo,      \* solo[r]: call r replayed with the same draws in a world of its own
    grid,      \* a GridIndex driven by its own methods (SpecGrid)
    gridCall,  \* the last GridIndex method call and what it returned
    call,      \* the last call observed from outside and what it returned:
               \* checkPlacementLegality, isPlanLegal, scoreLayout, a generator,
               \* or the draws of the last iteration of an observed run
    nudge      \* the locals of a nudgeToNearestLegal call

vars == <<heap, initial, ctx, pathMask, runs, solo, grid, gridCall, call, nudge>>

optVars == <<heap, initial, ctx, pathMask, runs, solo>>
gridVars == <<grid, gridCall>>
legalVars == <<call, nudge>>

\* ------------------------------------------------------------- the heap
Obj(h, a) == h[a[1]][a[2]]
\* the values an array of addresses holds
Deref(h, arr) == [k \in DOMAIN arr |-> Obj(h, arr[k])]
PutX(h, a, v) == [h EXCEPT ![a[1]][a[2]].x = v]
PutY(h, a, v) == [h EXCEPT ![a[1]][a[2]].y = v]
PutW(h, a, v) == [h EXCEPT ![a[1]][a[2]].w = v]
PutH(h, a, v) == [h EXCEPT ![a[1]][a[2]].h = v]

\* ------------------------------------------------ optimizer.ts cloneBlocks
\* A clone that copies nothing: the caller gets the array it passed.
cloneBlocksShared(h, rg, blocks) == [heap |-> h, blocks |-> blocks]

\* blocks.map(b => ({ ...b, meta: ... })): one new object per block, in
\* region rg, holding the block's fields
cloneBlocks(h, rg, blocks) ==
    [heap |-> [h EXCEPT ![rg] = h[rg] \o Deref(h, blocks)],
     blocks |-> [k \in DOMAIN blocks |-> <<rg, Len(h[rg]) + k>>]]

\* ----------------------------------------------------- the random source
\* The values Math.floor(Math.random() * n) takes, Math.random() being any
\* number of [0, 1): 0 .. n-1, and 0 alone when n is 0.
randInt(n) == 0..Max2(n - 1, 0)

\* ------------------------------------------------ optimizer.ts generators
\* Each generator takes the heap, the region it allocates in, the array and
\* the values k1, k2 its calls of randInt return, in the order of the calls,
\* and returns the heap after it, the array it returns and its move label.
\* Block indices are the code's (from 0).
\* A swap that returns early on an empty array only.
genSwapGuardEmpty(h, rg, blocks, k1, k2) ==
    IF Len(blocks) = 0 THEN [heap |-> h, blocks |-> blocks, move |-> <<"noop">>]
    ELSE LET i == k1
             j0 == k2
             j == IF j0 = i THEN (j0 + 1) % Len(blocks) ELSE j0
             cl == cloneBlocks(h, rg, blocks)
             nb == cl.blocks
             ai == [x |-> Obj(cl.heap, nb[i + 1]).x, y |-> Obj(cl.heap, nb[i + 1]).y]
             h1 == PutX(cl.heap, nb[i + 1], Obj(cl.heap, nb[j + 1]).x)
             h2 == PutY(h1, nb[i + 1], Obj(h1, nb[j + 1]).y)
             h3 == PutX(h2, nb[j + 1], ai.x)
             h4 == PutY(h3, nb[j + 1], ai.y)
         IN  [heap |-> h4, blocks |-> nb, move |-> <<"swap", i, j>>]

genSwap(h, rg, blocks, k1, k2) ==
    IF Len(blocks) < 2 THEN [heap |-> h, blocks |-> blocks, move |-> <<"noop">>]
    ELSE LET i == k1
             j0 == k2
             j == IF j0 = i THEN (j0 + 1) % Len(blocks) ELSE j0
             cl == cloneBlocks(h, rg, blocks)
             nb == cl.blocks
             ai == [x |-> Obj(cl.heap, nb[i + 1]).x, y |-> Obj(cl.heap, nb[i + 1]).y]
             h1 == PutX(cl.heap, nb[i + 1], Obj(cl.heap, nb[j + 1]).x)
             h2 == PutY(h1, nb[i + 1], Obj(h1, nb[j + 1]).y)
             h3 == PutX(h2, nb[j + 1], ai.x)
             h4 == PutY(h3, nb[j + 1], ai.y)
         IN  [heap |-> h4, blocks |-> nb, move |-> <<"swap", i, j>>]

dirs == <<<<1, 0>>, <<-1, 0>>, <<0, 1>>, <<0, -1>>>>

\* A shift that does not clamp the coordinates.
genShiftUnclamped(h, rg, blocks, gridStep, k1, k2) ==
    IF Len(blocks) = 0 THEN [heap |-> h, blocks |-> blocks, move |-> <<"noop">>]
    ELSE LET i == k1
             d == dirs[k2 + 1]
             cl == cloneBlocks(h, rg, blocks)
             nb == cl.blocks
             h1 == PutX(cl.heap, nb[i + 1], Obj(cl.heap, nb[i + 1]).x + d[1] * gridStep)
             h2 == PutY(h1, nb[i + 1], Obj(h1, nb[i + 1]).y + d[2] * gridStep)
         IN  [heap |-> h2, blocks |-> nb, move |-> <<"shift", i, d[1], d[2]>>]

genShift(h, rg, blocks, gridStep, k1, k2) ==
    IF Len(blocks) = 0 THEN [heap |-> h, blocks |-> blocks, move |-> <<"noop">>]
    ELSE LET i == k1
             d == dirs[k2 + 1]
             cl == cloneBlocks(h, rg, blocks)
             nb == cl.blocks
             h1 == PutX(cl.heap, nb[i + 1], Max2(0, Obj(cl.heap, nb[i + 1]).x + d[1] * gridStep))
             h2 == PutY(h1, nb[i + 1], Max2(0, Obj(h1, nb[i + 1]).y + d[2] * gridStep))
         IN  [heap |-> h2, blocks |-> nb, move |-> <<"shift", i, d[1], d[2]>>]

\* A rotate that loses the old width: w = h, then h = w.
genRotateNoTemp(h, rg, blocks, k1) ==
    IF Len(blocks) = 0 THEN [heap |-> h, blocks |-> blocks, move |-> <<"noop">>]
    ELSE LET i == k1
             cl == cloneBlocks(h, rg, blocks)
             nb == cl.blocks
             h1 == PutW(cl.heap, nb[i + 1], Obj(cl.heap, nb[i + 1]).h)
             h2 == PutH(h1, nb[i + 1], Obj(h1, nb[i + 1]).w)
         IN  [heap |-> h2, blocks |-> nb, move |-> <<"rotate", i>>]

genRotate(h, rg, blocks, k1) ==
    IF Len(blocks) = 0 THEN [heap |-> h, blocks |-> blocks, move |-> <<"noop">>]
    ELSE LET i == k1
             cl == cloneBlocks(h, rg, blocks)
             nb == cl.blocks
             w == Obj(cl.heap, nb[i + 1]).w
             h1 == PutW(cl.heap, nb[i + 1], Obj(cl.heap, nb[i + 1]).h)
             h2 == PutH(h1, nb[i + 1], w)
         IN  [heap |-> h2, blocks |-> nb, move |-> <<"rotate", i>>]

genPullTogether(h, rg, blocks, k1) ==
    IF Len(blocks) < 2 THEN [heap |-> h, blocks |-> blocks, move |-> <<"noop">>]
    ELSE LET i == k1
             j == i + 1
             cl == cloneBlocks(h, rg, blocks)
             nb == cl.blocks
             cx == (Obj(cl.heap, nb[i + 1]).x + Obj(cl.heap, nb[j + 1]).x) \div 2
             cy == (Obj(cl.heap, nb[i + 1]).y + Obj(cl.heap, nb[j + 1]).y) \div 2
             h1 == PutX(cl.heap, nb[i + 1], cx - Obj(cl.heap, nb[i + 1]).w)
             h2 == PutX(h1, nb[j + 1], cx + Tenth)
             h3 == PutY(h2, nb[i + 1], cy)
             h4 == PutY(h3, nb[j + 1], cy)
         IN  [heap |-> h4, blocks |-> nb, move |-> <<"pullTogether", i, j>>]

\* gens[k](bestBlocks), with the values k1, k2 of the generator's draws
gens(k, h, rg, blocks, gridStep, k1, k2) ==
    CASE k = 0 -> genSwap(h, rg, blocks, k1, k2)
      [] k = 1 -> genShift(h, rg, blocks, gridStep, k1, k2)
      [] k = 2 -> genRotate(h, rg, blocks, k1)
      [] k = 3 -> genPullTogether(h, rg, blocks, k1)

\* The values generator k's first and second call of randInt can return on
\* an array of n blocks (a generator that draws no second value gets 0; one
\* that returns before drawing ignores both).
FirstDraws(k, n) == IF k = 3 THEN randInt(n - 1) ELSE randInt(n)
SecondDraws(k, n) ==
    CASE k = 0 -> randInt(n)
      [] k = 1 -> randInt(Len(dirs))
      [] OTHER -> {0}

\* ------------------------------------------- optimizer.ts optimizeHeuristic
\* opts is a function on the options the caller gives; cooling is a rational
\* [n, d] with 0 <= n <= d (the option's documented range, 0..1).
DefaultIterations == 40
DefaultCooling == [n |-> 19, d |-> 20]
\* Math.max(0.25, ctx.cellSize)
DefaultGrid(c) == Max2(Metre \div 4, c.cellSize)

\* The locals of a call that has not begun.
IdleRun(opts) ==
    [pc |-> "idle", opts |-> opts, iterations |-> 0, grid |-> 0, cooling |-> DefaultCooling,
     bestBlocks |-> << >>, best |-> [total |-> 0], history |-> << >>,
     tempPow |-> 0, iter |-> 0, ncand |-> 0, result |-> "none"]

\* Lines 84-94: the options, the copy of the initial blocks, its score.
\* temperature is kept as the number tempPow of times it was multiplied by
\* cooling: temperature = 1.0 * cooling ^ tempPow.
StartRun(h, rg, st, init, c, mask) ==
    LET cl == cloneBlocks(h, rg, init.blocks)
    IN  [heap |-> cl.heap,
         st |-> [st EXCEPT
                   !.pc = "loop",
                   !.iterations = IF "iterations" \in DOMAIN st.opts
                                  THEN st.opts.iterations ELSE DefaultIterations,
                   !.grid = IF "grid" \in DOMAIN st.opts THEN st.opts.grid ELSE DefaultGrid(c),
                   !.cooling = IF "cooling" \in DOMAIN st.opts
                               THEN st.opts.cooling ELSE DefaultCooling,
                   !.bestBlocks = cl.blocks,
                   !.best = scoreLayout(Deref(cl.heap, cl.blocks), c, mask),
                   !.history = << >>,
                   !.tempPow = 0,
                   !.iter = 0]]

\* gens.length
NumGens == 4

\* The acceptance draw u = Math.random() is "lo" (u = 0) or "hi" (u the
\* largest double below 1).  Every other u decides as one of the two: if it
\* accepts so does 0, if it rejects so does the largest.
AcceptDraws == {"lo", "hi"}
TempPositive(cooling, pow) == pow = 0 \/ cooling.n > 0
TempAtLeastOne(cooling, pow) == pow = 0 \/ cooling.n >= cooling.d

\* u < Math.exp(-(s.total - best.total) / Math.max(1, best.total)) * temperature,
\* decided for s.total >= best.total (below it acceptBetter holds already):
\* the exponential is 1 when the totals are equal and inside (0, 1) otherwise,
\* and temperature is at most 1.
\* An acceptance test without the temperature factor.
acceptWorseNoTemperature(u, s, best, cooling, pow) ==
    IF u = "lo" THEN TRUE ELSE s.total = best.total

acceptWorse(u, s, best, cooling, pow) ==
    IF u = "lo" THEN TempPositive(cooling, pow)
    ELSE s.total = best.total /\ TempAtLeastOne(cooling, pow)

\* A gate that sends the loop round again without counting the iteration.
RejectedStepRetry(st) == [st EXCEPT !.ncand = @ + 1]

\* Lines 100-102: the candidate fails the gate; continue goes to iter++ and
\* the next iteration, past the rest of the body.  ncand counts the
\* candidates generated so far.
RejectedStep(st) == [st EXCEPT !.iter = @ + 1, !.ncand = @ + 1]

\* Lines 97-112: one iteration of the loop, with its draws: g =
\* randInt(gens.length) picks the generator, k1 and k2 are the generator's
\* draws, u the acceptance draw.
\* The objects of a candidate that is not kept are unreachable after the
\* iteration and are dropped from the region.
IterateRun(h, rg, st, init, c, mask, g, k1, k2, u) ==
    LET cand == gens(g, h, rg, st.bestBlocks, st.grid, k1, k2)
        candidateBlocks == cand.blocks
        dropped == [cand.heap EXCEPT ![rg] = SubSeq(@, 1, Len(h[rg]))]
    IN  IF ~isPlanLegal(Deref(cand.heap, candidateBlocks), c, mask)
        THEN \* continue: the decay at the end of the body is skipped
             [heap |-> dropped, st |-> RejectedStep(st)]
        ELSE LET s == scoreLayout(Deref(cand.heap, candidateBlocks), c, mask)
                 acceptBetter == s.total < st.best.total
             IN  IF acceptBetter \/ acceptWorse(u, s, st.best, st.cooling, st.tempPow)
                 THEN [heap |-> cand.heap,
                       st |-> [st EXCEPT
                                 !.bestBlocks = candidateBlocks,
                                 !.best = s,
                                 !.history = Append(@,
                                     [plan |-> [id |-> <<init.id, "iter", st.iter>>,
                                                blocks |-> candidateBlocks],
                                      score |-> s.total,
                                      move |-> cand.move]),
                                 !.tempPow = @ + 1,
                                 !.iter = @ + 1,
                                 !.ncand = @ + 1]]
                 ELSE [heap |-> dropped,
                       st |-> [st EXCEPT !.tempPow = @ + 1, !.iter = @ + 1, !.ncand = @ + 1]]

\* Lines 115-119
FinishRun(st, init) ==
    [st EXCEPT !.pc = "done",
               !.result = [bestPlan |-> [id |-> init.id, blocks |-> st.bestBlocks],
                           bestScore |-> st.best.total,
                           history |-> st.history]]

\* ---------------------------------------------------- optimizer actions
\* Call r begins.
Start(r) ==
    /\ runs[r].pc = "idle"
    /\ LET real == StartRun(heap, r, runs[r], initial, ctx, pathMask)
           own == StartRun(solo[r].heap, r, solo[r].st, initial, ctx, pathMask)
       IN  /\ heap' = real.heap
           /\ runs' = [runs EXCEPT ![r] = real.st]
           /\ solo' = [solo EXCEPT ![r] = own]
    /\ UNCHANGED <<initial, ctx, pathMask, gridVars, legalVars>>

\* Call r runs one iteration of its loop.
Iterate(r) ==
    /\ runs[r].pc = "loop"
    /\ runs[r].iter < runs[r].iterations
    /\ \E g \in randInt(NumGens), u \in AcceptDraws :
       \E k1 \in FirstDraws(g, Len(runs[r].bestBlocks)),
          k2 \in SecondDraws(g, Len(runs[r].bestBlocks)) :
          LET real == IterateRun(heap, r, runs[r], initial, ctx, pathMask, g, k1, k2, u)
              own == IterateRun(solo[r].heap, r, solo[r].st, initial, ctx, pathMask, g, k1, k2, u)
          IN  /\ heap' = real.heap
              /\ runs' = [runs EXCEPT ![r] = real.st]
              /\ solo' = [solo EXCEPT ![r] = own]
    /\ UNCHANGED <<initial, ctx, pathMask, gridVars, legalVars>>

\* Call r leaves its loop and returns.
Finish(r) ==
    /\ runs[r].pc = "loop"
    /\ ~(runs[r].iter < runs[r].iterations)
    /\ runs' = [runs EXCEPT ![r] = FinishRun(runs[r], initial)]
    /\ solo' = [solo EXCEPT ![r].st = FinishRun(solo[r].st, initial)]
    /\ UNCHANGED <<heap, initial, ctx, pathMask, gridVars, legalVars>>

\* ------------------------------------------------------ optimizer inputs
Block(id, key, x, y, w, h) ==
    [id |-> id, key |-> key, x |-> x, y |-> y, w |-> w, h |-> h,
     meta |-> [kpis |-> <<id, w * h>>]]

\* A path mask as the caller builds it (cells of 1 m over 6 m x 4 m, one
\* aisle filled in: the column of cells from x = 5 m).
AisleMask ==
    fillRect(GridIndex([cellSize |-> Metre, width |-> 6 * Metre, height |-> 4 * Metre]),
             Rect(5 * Metre, 0, Metre, 4 * Metre), 1)

WideSite == Rect(0, 0, 5 * Metre, 4 * Metre)
TightSite == Rect(Metre, Metre, 3 * Metre, 2 * Metre)

Context(minAisle, adjacency) ==
    [cellSize |-> Metre, minAisle |-> minAisle,
     site |-> IF minAisle = 0 THEN TightSite ELSE WideSite,
     flows |-> Table({<<"A", "B", 1>>, <<"B", "A", 2>>, <<"A", "A", 5>>, <<"A", "Z", 5>>}),
     adjacency |-> adjacency,
     weights |-> << >>]

\* Two blocks, legal under either clearance.
PlanPair == <<Block("A", "a", Metre, Metre, Metre, 2 * Metre),
              Block("B", "b", 3 * Metre, Metre, Metre, Metre)>>
\* Two blocks, the second on the aisle and partly outside the site.
PlanOnAisle == <<Block("A", "a", Metre, Metre, Metre, Metre),
                 Block("B", "b", 5 * Metre, Metre, Metre, Metre)>>
\* One block wider than the site: no move makes it legal.
PlanTooWide == <<Block("A", "a", 0, Metre, 7 * Metre, Metre)>>
PlanSingle == <<Block("A", "a", 2 * Metre, Metre, Metre, Metre)>>
\* Two blocks half a metre apart in x, overlapping.
PlanOverlap == <<Block("A", "a", Metre, Metre, Metre, Metre),
                 Block("B", "b", (3 * Metre) \div 2, Metre, Metre, Metre)>>
PlanEmpty == << >>

NoOpts == << >>
Opts(n) == [iterations |-> n]
OptsAll(n, cooling) == [iterations |-> n, grid |-> Metre, cooling |-> cooling]

\* The runs of Spec: one call each.  A call that leaves iterations out
\* runs the default budget, here on the plan no move can repair.
Scenarios ==
    {[plan |-> p, minAisle |-> m, adjacency |-> NoTable, opts |-> Opts(n)] :
        p \in {PlanPair, PlanOnAisle, PlanSingle, PlanEmpty},
        m \in {0, Metre}, n \in 0..MaxIterations}
    \cup {[plan |-> PlanPair, minAisle |-> m, adjacency |-> Table({<<"a", "b", 1>>}),
           opts |-> OptsAll(MaxIterations, c)] :
             m \in {0, Metre}, c \in {[n |-> 1, d |-> 2], [n |-> 1, d |-> 1], [n |-> 0, d |-> 1]}}
    \cup {[plan |-> PlanTooWide, minAisle |-> Metre, adjacency |-> NoTable, opts |-> NoOpts]}

\* The runs of SpecPair: two calls given the same Plan and ScoreContext.
PairScenarios ==
    {[plan |-> PlanPair, minAisle |-> Metre, adjacency |-> NoTable,
      opts |-> OptsAll(PairIterations, [n |-> 0, d |-> 1])]}

\* The variables the optimizer does not touch, at rest.
NoGrid == GridIndex([cellSize |-> Metre, width |-> 0, height |-> 0])
GridAtRest == grid = NoGrid /\ gridCall = [op |-> "none"]
LegalAtRest == call = [fn |-> "none"] /\ nudge = [pc |-> "idle"]

InitOptimizer(ids, scenarios) ==
    \E sc \in scenarios :
        /\ heap = [rg \in {0} \cup ids |-> IF rg = 0 THEN sc.plan ELSE << >>]
        /\ initial = [id |-> "plan", blocks |-> [k \in DOMAIN sc.plan |-> <<0, k>>]]
        /\ ctx = Context(sc.minAisle, sc.adjacency)
        /\ pathMask = AisleMask
        /\ runs = [r \in ids |-> IdleRun(sc.opts)]
        /\ solo = [r \in ids |-> [heap |-> heap, st |-> IdleRun(sc.opts)]]
        /\ GridAtRest
        /\ LegalAtRest

Init == InitOptimizer({1}, Scenarios)
InitPair == InitOptimizer({1, 2}, PairScenarios)

StartSome == \E r \in DOMAIN runs : Start(r)
IterateSome == \E r \in DOMAIN runs : Iterate(r)
FinishSome == \E r \in DOMAIN runs : Finish(r)

Next == StartSome \/ IterateSome \/ FinishSome

Spec == Init /\ [][Next]_vars
SpecPair == InitPair /\ [][Next]_vars

\* ------------------------------------------------------- GridIndex actions
\* The grids SpecGrid builds: whole cells, a width that is no multiple of the
\* cell, and a cell size below the floor of 0.05 m.
GridOptions ==
    {[cellSize |-> Metre, width |-> 2 * Metre, height |-> 2 * Metre],
     [cellSize |-> Metre, width |-> (3 * Metre) \div 2, height |-> Metre],
     [cellSize |-> 0, width |-> Tenth, height |-> Tenth \div 2]}

\* Cell indices in and around a grid, and rects on and around it, in halves
\* of its cell.
GridCols(g) == (-1)..(g.cols + 1)
GridRows(g) == (-1)..(g.rows + 1)
GridValues == {0, 1, 2}
GridRects(g) ==
    LET half == g.cellSize \div 2
    IN  {Rect(x * half, y * half, w * half, hh * half) :
            x \in {-2, 0, 1, 2 * g.cols}, y \in {-1, 0, 1}, w \in {0, 1, 2, 4}, hh \in {0, 2}}
GridPolylines(g) ==
    LET c == g.cellSize
    IN  {<< >>, <<<<0, 0>>>>, <<<<0, 0>>, <<c, 0>>>>, <<<<c, 0>>, <<c, c>>, <<0, c>>>>,
         <<<<c \div 2, c \div 2>>, <<(3 * c) \div 2, c \div 2>>,
           <<(3 * c) \div 2, (3 * c) \div 2>>>>}

\* Options outside what a caller means to pass: a cell size of zero or
\* below it, widths and heights of zero or below it.
GridOddOptions ==
    {[cellSize |-> c, width |-> w, height |-> hh] :
        c \in {-Metre, 0, Metre},
        w \in {-Tenth, 0, Tenth \div 2}, hh \in {-Tenth, 0, Tenth \div 2}}

InitGrid ==
    /\ \E o \in GridOptions :
          /\ grid = GridIndex(o)
          /\ gridCall = [op |-> "new", opts |-> o, threw |-> FALSE]
    /\ heap = << >> /\ initial = [id |-> "none", blocks |-> << >>]
    /\ ctx = Context(0, NoTable) /\ pathMask = NoGrid
    /\ runs = << >> /\ solo = << >>
    /\ LegalAtRest

\* new GridIndex(opts): the grid in hand is replaced by the new one, or
\* kept when the constructor throws.
GridNew ==
    /\ \E o \in GridOptions \cup GridOddOptions :
          /\ grid' = IF GridIndexThrows(o) THEN grid ELSE GridIndex(o)
          /\ gridCall' = [op |-> "new", opts |-> o, threw |-> GridIndexThrows(o)]
    /\ UNCHANGED <<optVars, legalVars>>

GridSet ==
    /\ \E c \in GridCols(grid), r \in GridRows(grid), v \in GridValues :
          /\ grid' = set(grid, c, r, v)
          /\ gridCall' = [op |-> "set", c |-> c, r |-> r, value |-> v]
    /\ UNCHANGED <<optVars, legalVars>>

GridGet ==
    /\ \E c \in GridCols(grid), r \in GridRows(grid) :
          gridCall' = [op |-> "get", c |-> c, r |-> r, result |-> get(grid, c, r)]
    /\ UNCHANGED <<grid, optVars, legalVars>>

GridFillRect ==
    /\ \E rect \in GridRects(grid), v \in {0, 1} :
          /\ grid' = fillRect(grid, rect, v)
          /\ gridCall' = [op |-> "fillRect", rect |-> rect, value |-> v]
    /\ UNCHANGED <<optVars, legalVars>>

GridAnyOccupied ==
    /\ \E rect \in GridRects(grid) :
          gridCall' = [op |-> "anyOccupied", rect |-> rect, result |-> anyOccupied(grid, rect)]
    /\ UNCHANGED <<grid, optVars, legalVars>>

GridAddPolyline ==
    /\ \E pts \in GridPolylines(grid), width \in {0, grid.cellSize} :
          /\ grid' = addPolyline(grid, pts, width)
          /\ gridCall' = [op |-> "addPolyline", points |-> pts, width |-> width]
    /\ UNCHANGED <<optVars, legalVars>>

NextGrid == GridNew \/ GridSet \/ GridGet \/ GridFillRect \/ GridAnyOccupied \/ GridAddPolyline

SpecGrid == InitGrid /\ [][NextGrid]_vars

\* ------------------------------------------------------ legality actions
\* Masks over 6 m x 4 m in cells of 1 m: no aisle, the aisle of AisleMask,
\* and an aisle two cells wide (from x = 4 m).
EmptyMask == GridIndex([cellSize |-> Metre, width |-> 6 * Metre, height |-> 4 * Metre])
WideAisleMask == fillRect(EmptyMask, Rect(4 * Metre, 0, 2 * Metre, 4 * Metre), 1)
LegalMasks == {EmptyMask, AisleMask, WideAisleMask}
FullSite == Rect(0, 0, 6 * Metre, 4 * Metre)
LegalSites == {FullSite, WideSite, TightSite}

\* Candidate rects: on the cells of the masks and half a cell off them,
\* inside, across and outside the sites.
LegalRects ==
    {Rect(x * (Metre \div 2), y * Metre, w * Metre, hh * Metre) :
        x \in {0, 2, 4, 5, 6, 8, 10}, y \in {0, 1, 2}, w \in {1, 2}, hh \in {1, 2}}
OtherLists ==
    {<< >>,
     <<Rect(3 * Metre, Metre, Metre, Metre)>>,
     <<Rect(Metre, 2 * Metre, Metre, Metre), Rect(3 * Metre, Metre, Metre, Metre)>>}
\* Block lists for the gate, of 0 to 3 blocks.
PlanRects ==
    {Rect(Metre, Metre, Metre, Metre), Rect(2 * Metre, Metre, Metre, Metre),
     Rect(3 * Metre, Metre, Metre, 2 * Metre), Rect(3 * Metre, 2 * Metre, 2 * Metre, Metre),
     Rect((5 * Metre) \div 2, Metre, Metre, Metre), Rect(5 * Metre, Metre, Metre, Metre)}
PlanLists ==
    {<< >>} \cup {<<a>> : a \in PlanRects} \cup {<<a, b>> : a \in PlanRects, b \in PlanRects}
    \cup {<<a, b, c>> : a \in PlanRects, b \in PlanRects, c \in {Rect(Metre, Metre, Metre, Metre)}}

LegalityOptions == [minAisle |-> ctx.minAisle, site |-> ctx.site]

InitLegal ==
    /\ \E m \in {0, Metre}, site \in LegalSites :
          ctx = [Context(m, NoTable) EXCEPT !.site = site]
    /\ pathMask \in LegalMasks
    /\ call = [fn |-> "none"]
    /\ nudge = [pc |-> "idle"]
    /\ heap = << >> /\ initial = [id |-> "none", blocks |-> << >>]
    /\ runs = << >> /\ solo = << >>
    /\ GridAtRest

CheckPlacement ==
    /\ nudge.pc = "idle"
    /\ call.fn = "none"
    /\ \E candidate \in LegalRects, others \in OtherLists :
          call' = [fn |-> "checkPlacementLegality", candidate |-> candidate, others |-> others,
                   result |-> checkPlacementLegality(candidate, others, pathMask, LegalityOptions)]
    /\ UNCHANGED <<optVars, gridVars, nudge>>

CheckPlan ==
    /\ nudge.pc = "idle"
    /\ call.fn = "none"
    /\ \E blocks \in PlanLists :
          call' = [fn |-> "isPlanLegal", blocks |-> blocks,
                   result |-> isPlanLegal(blocks, ctx, pathMask)]
    /\ UNCHANGED <<optVars, gridVars, nudge>>

\* --------------------------------------------- grid.ts nudgeToNearestLegal
\* r.x.toFixed(3) and r.y.toFixed(3): the coordinate in thousandths of a
\* metre, rounded to the nearest (no modelled coordinate lies halfway).
Milli(v) == Floor(2 * 1000 * v + Metre, 2 * Metre)
nudgeKey(r) == <<Milli(r.x), Milli(r.y)>>

nudgeNeighbors(cur, step) ==
    <<Rect(cur.x + step, cur.y, cur.w, cur.h),
      Rect(cur.x - step, cur.y, cur.w, cur.h),
      Rect(cur.x, cur.y + step, cur.w, cur.h),
      Rect(cur.x, cur.y - step, cur.w, cur.h)>>

\* A search that forgets the other blocks when it tests a position.
nudgeAcceptsAlone(cur, others, mask, opts) ==
    checkPlacementLegality(cur, << >>, mask, opts).ok

\* Line 161: the test that ends the search at cur
nudgeAccepts(cur, others, mask, opts) ==
    checkPlacementLegality(cur, others, mask, opts).ok

\* Lines 153-156: the locals as the loop is entered.  tested lists the keys
\* of the positions handed to checkPlacementLegality, in order.
NudgeEnter(start, others, maxRadius) ==
    [pc |-> "loop", start |-> start, others |-> others, maxRadius |-> maxRadius,
     q |-> <<start>>, visited |-> {}, tested |-> << >>, result |-> start]

\* A search pruned to the square around start instead of the diamond.
NudgeLoopSquare(n, mask, opts) ==
    LET cur == Head(n.q)
        rest == Tail(n.q)
        step == mask.cellSize
        near == SelectSeq(nudgeNeighbors(cur, step),
                  LAMBDA p : /\ Abs(p.x - n.start.x) <= n.maxRadius
                             /\ Abs(p.y - n.start.y) <= n.maxRadius)
    IN  IF nudgeKey(cur) \in n.visited THEN [n EXCEPT !.q = rest]
        ELSE IF nudgeAccepts(cur, n.others, mask, opts)
        THEN [n EXCEPT !.pc = "done", !.q = rest,
                       !.visited = @ \cup {nudgeKey(cur)},
                       !.tested = Append(@, nudgeKey(cur)),
                       !.result = cur]
        ELSE [n EXCEPT !.q = rest \o near,
                       !.visited = @ \cup {nudgeKey(cur)},
                       !.tested = Append(@, nudgeKey(cur))]

\* A search that takes the position pushed last (q.pop() for q.shift()).
NudgeLoopDepthFirst(n, mask, opts) ==
    LET cur == n.q[Len(n.q)]
        rest == SubSeq(n.q, 1, Len(n.q) - 1)
        step == mask.cellSize
        near == SelectSeq(nudgeNeighbors(cur, step),
                  LAMBDA p : Abs(p.x - n.start.x) + Abs(p.y - n.start.y) <= n.maxRadius)
    IN  IF nudgeKey(cur) \in n.visited THEN [n EXCEPT !.q = rest]
        ELSE IF nudgeAccepts(cur, n.others, mask, opts)
        THEN [n EXCEPT !.pc = "done", !.q = rest,
                       !.visited = @ \cup {nudgeKey(cur)},
                       !.tested = Append(@, nudgeKey(cur)),
                       !.result = cur]
        ELSE [n EXCEPT !.q = rest \o near,
                       !.visited = @ \cup {nudgeKey(cur)},
                       !.tested = Append(@, nudgeKey(cur))]

\* Lines 157-171: one iteration of the while loop (q is not empty)
NudgeLoop(n, mask, opts) ==
    LET cur == Head(n.q)
        rest == Tail(n.q)
        step == mask.cellSize
        near == SelectSeq(nudgeNeighbors(cur, step),
                  LAMBDA p : Abs(p.x - n.start.x) + Abs(p.y - n.start.y) <= n.maxRadius)
    IN  IF nudgeKey(cur) \in n.visited THEN [n EXCEPT !.q = rest]
        ELSE IF nudgeAccepts(cur, n.others, mask, opts)
        THEN [n EXCEPT !.pc = "done", !.q = rest,
                       !.visited = @ \cup {nudgeKey(cur)},
                       !.tested = Append(@, nudgeKey(cur)),
                       !.result = cur]
        ELSE [n EXCEPT !.q = rest \o near,
                       !.visited = @ \cup {nudgeKey(cur)},
                       !.tested = Append(@, nudgeKey(cur))]

\* Line 173: the queue ran empty
NudgeExhausted(n) == [n EXCEPT !.pc = "done", !.result = n.start]

NudgeStarts ==
    {Rect(Metre, Metre, Metre, Metre), Rect(3 * Metre, Metre, Metre, Metre),
     Rect(5 * Metre, Metre, Metre, Metre), Rect((9 * Metre) \div 2, 2 * Metre, Metre, 2 * Metre),
     Rect(0, 0, 7 * Metre, Metre)}

NudgeStart ==
    /\ nudge.pc = "idle"
    /\ call.fn = "none"
    /\ \E start \in NudgeStarts, others \in OtherLists, k \in (-1)..MaxRadiusCells :
          nudge' = NudgeEnter(start, others, k * pathMask.cellSize)
    /\ UNCHANGED <<optVars, gridVars, call>>

NudgeStep ==
    /\ nudge.pc = "loop"
    /\ nudge.q # << >>
    /\ nudge' = NudgeLoop(nudge, pathMask, LegalityOptions)
    /\ UNCHANGED <<optVars, gridVars, call>>

NudgeReturn ==
    /\ nudge.pc = "loop"
    /\ nudge.q = << >>
    /\ nudge' = NudgeExhausted(nudge)
    /\ UNCHANGED <<optVars, gridVars, call>>

NextLegal == CheckPlacement \/ CheckPlan \/ NudgeStart \/ NudgeStep \/ NudgeReturn

SpecLegal == InitLegal /\ [][NextLegal]_vars

\* nudgeToNearestLegal is synchronous: once called, its loop runs on until it
\* returns.
SpecLegalLive == SpecLegal /\ WF_vars(NudgeStep) /\ WF_vars(NudgeReturn)

\* ---------------------------------------------------------------- views
\* What a call holds, by value: the blocks behind every array it refers to.
HistoryView(h, history) ==
    [k \in DOMAIN history |->
        [id |-> history[k].plan.id, blocks |-> Deref(h, history[k].plan.blocks),
         score |-> history[k].score, move |-> history[k].move]]

RunView(h, st) ==
    [pc |-> st.pc, iter |-> st.iter, tempPow |-> st.tempPow, best |-> st.best,
     bestBlocks |-> Deref(h, st.bestBlocks),
     history |-> HistoryView(h, st.history),
     result |-> IF st.pc = "done"
                THEN [bestPlan |-> [id |-> st.result.bestPlan.id,
                                    blocks |-> Deref(h, st.result.bestPlan.blocks)],
                      bestScore |-> st.result.bestScore,
                      history |-> HistoryView(h, st.result.history)]
                ELSE [bestScore |-> 0]]

Done(r) == runs[r].pc = "done"
Returned(r) == runs[r].result
MoveKinds(history) == {history[k].move[1] : k \in DOMAIN history}

\* ------------------------------------------------------------ claims C1-C6

\* C1 (as stated): the blocks of the bestPlan a call returns pass isPlanLegal,
\* whatever the initial Plan, also when no candidate was accepted.
C1_ReturnedPlanIsLegal ==
    \A r \in DOMAIN runs :
        Done(r) => isPlanLegal(Deref(heap, Returned(r).bestPlan.blocks), ctx, pathMask)

\* C2 (as stated): the returned bestScore is at most the score of the initial
\* blocks and at most every score in the returned history, and the returned
\* blocks attain it.
C2_ReturnsBestFound ==
    \A r \in DOMAIN runs :
        Done(r) =>
            /\ Returned(r).bestScore <= scoreLayout(Deref(heap, initial.blocks), ctx, pathMask).total
            /\ \A k \in DOMAIN Returned(r).history :
                  Returned(r).bestScore <= Returned(r).history[k].score
            /\ scoreLayout(Deref(heap, Returned(r).bestPlan.blocks), ctx, pathMask).total
                  = Returned(r).bestScore

\* C3 (as stated): the temperature is multiplied by cooling once in every
\* iteration, so at the start of iteration k it is cooling^k.
C3_TemperatureDecaysEveryIteration ==
    \A r \in DOMAIN runs : runs[r].pc = "loop" => runs[r].tempPow = runs[r].iter

\* C4: a call runs exactly `iterations` iterations (40 when the option is
\* absent), each generating one candidate, a gate rejection included: every
\* step of a call inside its loop is one more iteration while iter is below
\* the budget and the return once it is not, so the call returns after
\* exactly `iterations` of them, with at most as many history entries.
C4_BudgetHeld ==
    \A r \in DOMAIN runs :
        /\ runs[r].pc # "idle" =>
              runs[r].iterations = IF "iterations" \in DOMAIN runs[r].opts
                                   THEN runs[r].opts.iterations ELSE 40
        /\ runs[r].pc = "loop" =>
              /\ runs[r].iter <= runs[r].iterations
              /\ runs[r].ncand = runs[r].iter
              /\ Len(runs[r].history) <= runs[r].iter
        /\ Done(r) =>
              /\ runs[r].iter = runs[r].iterations
              /\ runs[r].ncand = runs[r].iterations
              /\ Len(Returned(r).history) <= runs[r].iterations

C4_LoopStep ==
    \A r \in DOMAIN runs :
        (runs[r].pc = "loop" /\ runs'[r] # runs[r]) =>
            \/ /\ runs[r].iter < runs[r].iterations
               /\ runs'[r].pc = "loop"
               /\ runs'[r].iter = runs[r].iter + 1
               /\ runs'[r].ncand = runs[r].ncand + 1
            \/ /\ runs[r].iter = runs[r].iterations
               /\ runs'[r].pc = "done"

C4_FixedIterationBudget == [] C4_BudgetHeld /\ [][C4_LoopStep]_vars

\* C4 witness: a call without the option has returned after 40 iterations
\* whose candidates the gate rejected, every one.
C4_Witness ==
    \E r \in DOMAIN runs :
        /\ Done(r)
        /\ "iterations" \notin DOMAIN runs[r].opts
        /\ runs[r].ncand = 40
        /\ Returned(r).history = << >>

\* C5: no step of a call changes a block of initial.blocks, the array
\* itself, or the ScoreContext with its path mask.
C5_InputsNotMutated ==
    [][ /\ heap'[0] = heap[0]
        /\ initial' = initial
        /\ ctx' = ctx
        /\ pathMask' = pathMask ]_vars

\* C5 witness: a call has returned after accepting moves of three kinds.
C5_Witness ==
    \E r \in DOMAIN runs :
        /\ Done(r)
        /\ Cardinality(MoveKinds(Returned(r).history) \ {"noop"}) >= 3

\* C6: each of two interleaved calls on the same Plan and ScoreContext holds
\* at every point, and returns, what it holds when replayed alone with the
\* same draws.
C6_InterleavedRunsDoNotInterfere ==
    \A r \in DOMAIN runs : RunView(heap, runs[r]) = RunView(solo[r].heap, solo[r].st)

\* C6 witness: both calls are inside their loops, each past an iteration and
\* each with an accepted candidate, and they hold different arrangements.
C6_Witness ==
    /\ \A r \in DOMAIN runs :
          runs[r].pc = "loop" /\ runs[r].iter >= 1 /\ runs[r].history # << >>
    /\ \E r1, r2 \in DOMAIN runs :
          Deref(heap, runs[r1].bestBlocks) # Deref(heap, runs[r2].bestBlocks)

\* --------------------------------------------------------------- claim C10

\* C10: whatever set, fillRect and addPolyline calls a grid has been through,
\* get reports every cell outside it occupied, and a set outside it changes
\* no cell.
C10_OutsideReadsOccupied ==
    \A c \in GridCols(grid), r \in GridRows(grid) :
        (c < 0 \/ r < 0 \/ c >= grid.cols \/ r >= grid.rows) => get(grid, c, r) = 1

C10_OutsideSetIsNoOp ==
    (gridCall'.op = "set"
       /\ (gridCall'.c < 0 \/ gridCall'.r < 0
             \/ gridCall'.c >= grid.cols \/ gridCall'.r >= grid.rows))
    => grid' = grid

C10_GridFailsClosed == [] C10_OutsideReadsOccupied /\ [][C10_OutsideSetIsNoOp]_vars

\* C10 witness: a set of 1 just past the last column of a row that is not the
\* last one, the cell at the head of the next row being free, on a grid with
\* an occupied cell.
C10_Witness ==
    /\ gridCall.op = "set"
    /\ gridCall.c = grid.cols /\ gridCall.r = 0 /\ grid.rows > 1
    /\ gridCall.value = 1
    /\ grid.data[idx(grid, 0, 1)] = 0
    /\ \E k \in DOMAIN grid.data : grid.data[k] = 1

\* ------------------------------------------------------- claims C7-C9
\* The four checks of the Legality Checker, each on its own.
InSite(candidate) == inside(candidate, ctx.site)
OffPath(candidate) == ~anyOccupied(pathMask, candidate)
ClearOfPath(candidate) == ~anyOccupied(pathMask, inflate(candidate, ctx.minAisle))
ClearOfOthers(candidate, others) ==
    \A k \in DOMAIN others : ~aabbOverlap(inflate(candidate, ctx.minAisle), others[k])
Legal(candidate, others) ==
    checkPlacementLegality(candidate, others, pathMask, LegalityOptions).ok

Without(blocks, k) ==
    [m \in 1..(Len(blocks) - 1) |-> IF m < k THEN blocks[m] ELSE blocks[m + 1]]

\* C8: isPlanLegal accepts a block list exactly when checkPlacementLegality
\* accepts each of its blocks against all the other blocks of the list.
C8_GateEquivalentToChecker ==
    call.fn = "isPlanLegal" =>
        (call.result <=>
            \A k \in DOMAIN call.blocks :
                Legal(RectOf(call.blocks[k]), Without(call.blocks, k)))

\* C8 witness: the gate refused a list in which every block passes the
\* checker on its own and a later block, bare, does not overlap an earlier
\* one but is closer to it than minAisle.
C8_Witness ==
    /\ call.fn = "isPlanLegal"
    /\ ctx.minAisle > 0
    /\ \A k \in DOMAIN call.blocks : Legal(RectOf(call.blocks[k]), << >>)
    /\ \E i \in DOMAIN call.blocks, j \in DOMAIN call.blocks :
          /\ i < j
          /\ ~aabbOverlap(call.blocks[i], call.blocks[j])
          /\ aabbOverlap(inflate(call.blocks[j], ctx.minAisle), call.blocks[i])
    /\ \A i \in DOMAIN call.blocks, j \in DOMAIN call.blocks :
          i # j => ~aabbOverlap(call.blocks[i], call.blocks[j])
    /\ ~call.result

\* The positions within maxRadius of start: start moved by whole steps, the
\* moves along x and y adding up to at most maxRadius.
NudgeReach(n) ==
    LET step == pathMask.cellSize
        k == n.maxRadius \div step
    IN  {p \in {Rect(n.start.x + i * step, n.start.y + j * step, n.start.w, n.start.h) :
                    i \in (-k)..k, j \in (-k)..k} :
            Abs(p.x - n.start.x) + Abs(p.y - n.start.y) <= n.maxRadius}

\* C9: nudgeToNearestLegal returns a rect that passes checkPlacementLegality
\* or start unchanged; start itself when start is legal; start when no
\* position within maxRadius is legal; always a rect of start's w and h.
C9_NudgeReturnsLegalOrStart ==
    nudge.pc = "done" =>
        /\ Legal(nudge.result, nudge.others) \/ nudge.result = nudge.start
        /\ Legal(nudge.start, nudge.others) => nudge.result = nudge.start
        /\ (\A p \in NudgeReach(nudge) : ~Legal(p, nudge.others)) => nudge.result = nudge.start
        /\ nudge.result.w = nudge.start.w
        /\ nudge.result.h = nudge.start.h

\* C9 witness: a search from a start whose every cell is on the path, with a
\* positive maxRadius that reaches no legal position, tried the positions
\* around start and returned start.
C9_Witness ==
    /\ nudge.pc = "done"
    /\ nudge.maxRadius > 0
    /\ inside(nudge.start, ctx.site)
    /\ \A p \in {Rect(x * pathMask.cellSize, y * pathMask.cellSize,
                      pathMask.cellSize, pathMask.cellSize) :
                    x \in 0..(pathMask.cols - 1), y \in 0..(pathMask.rows - 1)} :
          aabbOverlap(p, nudge.start) => anyOccupied(pathMask, p)
    /\ Len(nudge.tested) > 1
    /\ nudge.result = nudge.start

\* C9, second witness: a search from an illegal start returned another,
\* legal, position.
C9_WitnessMoved ==
    /\ nudge.pc = "done"
    /\ nudge.result # nudge.start
    /\ Legal(nudge.result, nudge.others)

\* ------------------------------------------------------------- claim C11
\* C11 (as stated): after fillRect(R, true), anyOccupied(R) is true, for any
\* rect R of non-negative width and height and any prior grid.
C11_FillThenAnyOccupied ==
    (gridCall.op = "fillRect" /\ gridCall.value = 1) =>
        anyOccupied(grid, gridCall.rect)

\* C11 (amended): after fillRect(R, true), anyOccupied(R) is true for any
\* rect R of positive width and height, inside, across or outside the grid,
\* and any prior grid.
C11_FillThenAnyOccupiedPositive ==
    (gridCall.op = "fillRect" /\ gridCall.value = 1
        /\ gridCall.rect.w > 0 /\ gridCall.rect.h > 0) =>
        anyOccupied(grid, gridCall.rect)

\* C11 witness: a rect of positive size wholly outside the grid was filled
\* on a grid with cells, none of them occupied; anyOccupied answers true.
C11_Witness ==
    /\ gridCall.op = "fillRect" /\ gridCall.value = 1
    /\ gridCall.rect.w > 0 /\ gridCall.rect.h > 0
    /\ Floor(gridCall.rect.x, grid.cellSize) >= grid.cols
    /\ grid.cols * grid.rows > 0
    /\ \A k \in DOMAIN grid.data : grid.data[k] = 0
    /\ anyOccupied(grid, gridCall.rect)

\* C11, second witness: a rect of positive size inside the grid was filled
\* on a grid none of whose other cells is occupied.
C11_WitnessInside ==
    /\ gridCall.op = "fillRect" /\ gridCall.value = 1
    /\ gridCall.rect.w > 0 /\ gridCall.rect.h > 0
    /\ inside(gridCall.rect, Rect(0, 0, grid.cols * grid.cellSize, grid.rows * grid.cellSize))
    /\ anyOccupied(grid, gridCall.rect)
    /\ grid = fillRect([grid EXCEPT !.data = [k \in DOMAIN grid.data |-> 0]], gridCall.rect, 1)

\* ------------------------------------------------------------- claim C12
\* C12 (as stated): constructing a grid never fails, whatever the cell size,
\* width and height: the cell size is at least 0.05 m, cols and rows are
\* non-negative, and ceil(width/cellSize) and ceil(height/cellSize) for
\* positive dimensions, and the bitmap has cols*rows cells, all unoccupied.
C12_ConstructorNeverFails ==
    gridCall.op = "new" =>
        /\ ~gridCall.threw
        /\ grid.cellSize >= MinCellSize
        /\ grid.cols >= 0 /\ grid.rows >= 0
        /\ gridCall.opts.width > 0 => grid.cols = Ceil(gridCall.opts.width, grid.cellSize)
        /\ gridCall.opts.height > 0 => grid.rows = Ceil(gridCall.opts.height, grid.cellSize)
        /\ DOMAIN grid.data = 0..(grid.cols * grid.rows - 1)
        /\ \A k \in DOMAIN grid.data : grid.data[k] = 0

\* --------------------------------------------------------- score actions
\* Block lists for scoreLayout on the masks of 6 m x 4 m: blocks of 1 m at a
\* gap of 2 m, of 1 m (minAisle itself), of half a metre; a block on the
\* aisle; blocks sharing a category, in two orders; one block, none.
ScoreFar == <<Block("A", "a", Metre, Metre, Metre, Metre),
              Block("B", "b", 4 * Metre, Metre, Metre, Metre)>>
ScoreAtAisle == <<Block("A", "a", Metre, Metre, Metre, Metre),
                  Block("B", "b", 3 * Metre, Metre, Metre, Metre)>>
ScoreClose == <<Block("A", "a", Metre, Metre, Metre, Metre),
                Block("B", "b", (5 * Metre) \div 2, Metre, Metre, Metre)>>
ScoreOnPath == <<Block("A", "a", Metre, Metre, Metre, Metre),
                 Block("B", "b", 5 * Metre, Metre, Metre, Metre)>>
ScoreTwins == <<Block("A", "a", Metre, Metre, Metre, Metre),
                Block("B", "b", 4 * Metre, 2 * Metre, Metre, Metre),
                Block("C", "a", 4 * Metre, Metre, Metre, Metre)>>
ScoreTwinsSwapped == <<ScoreTwins[3], ScoreTwins[2], ScoreTwins[1]>>
ScoreLists ==
    {ScoreFar, ScoreAtAisle, ScoreClose, ScoreOnPath, ScoreTwins, ScoreTwinsSwapped,
     PlanPair, PlanSingle, PlanEmpty}

\* flows: none; small rates with an entry from a block to itself and one to
\* an id no block has; one large rate.
ScoreFlows ==
    {NoTable,
     Table({<<"A", "B", 1>>, <<"B", "A", 2>>, <<"A", "A", 5>>, <<"A", "Z", 5>>}),
     Table({<<"A", "B", 400000>>})}
\* adjacency: none; the key "a-b"; the keys "a-b", "b-a", "a-a", "a-z".
ScoreAdjacency ==
    {NoTable,
     Table({<<"a", "b", 1>>}),
     Table({<<"a", "b", 2>>, <<"b", "a", -1>>, <<"a", "a", 4>>, <<"a", "z", 8>>})}
\* weights: none; lambdaClear alone, set to 0; all three.
ScoreWeights ==
    {<< >>,
     [lambdaClear |-> 0],
     [lambdaPath |-> 7, lambdaClear |-> 3, lambdaAdj |-> 2]}

\* The blocks of the spec's example, 10 m x 10 m at x = 0 and x = 20 m.
ScoreExample == <<Block("A", "a", 0, 0, 10 * Metre, 10 * Metre),
                  Block("B", "b", 20 * Metre, 0, 10 * Metre, 10 * Metre)>>
ScoreExampleFlows == Table({<<"A", "B", 5>>})

InitScore ==
    /\ \/ \E m \in {0, Metre}, f \in ScoreFlows, a \in ScoreAdjacency, w \in ScoreWeights :
             ctx = [Context(m, a) EXCEPT !.site = FullSite, !.flows = f, !.weights = w]
       \/ ctx = [Context(Metre, NoTable) EXCEPT !.site = FullSite, !.flows = ScoreExampleFlows]
    /\ pathMask \in {EmptyMask, AisleMask}
    /\ call = [fn |-> "none"]
    /\ nudge = [pc |-> "idle"]
    /\ heap = << >> /\ initial = [id |-> "none", blocks |-> << >>]
    /\ runs = << >> /\ solo = << >>
    /\ GridAtRest

\* scoreLayout(blocks, ctx): the call and its result, with the call before it
\* on the same context.
ScoreLayout ==
    /\ call.fn = "none" \/ (call.fn = "scoreLayout" /\ call.before.fn = "none")
    /\ \E blocks \in ScoreLists \cup {ScoreExample} :
          /\ (blocks = ScoreExample) <=> (ctx.flows = ScoreExampleFlows)
          /\ call' = [fn |-> "scoreLayout", blocks |-> blocks,
                      result |-> scoreLayout(blocks, ctx, pathMask),
                      before |-> IF call.fn = "none" THEN call
                                 ELSE [fn |-> call.fn, blocks |-> call.blocks,
                                       result |-> call.result]]
    /\ UNCHANGED <<optVars, gridVars, nudge>>

NextScore == ScoreLayout

SpecScore == InitScore /\ [][NextScore]_vars

\* --------------------------------------------------------- claims C13-C18
\* The blocks of a list whose rect, inflated by m, covers an occupied cell,
\* and the pairs i < j of a list whose rects, both inflated by m, overlap.
NearPath(blocks, m) ==
    {i \in DOMAIN blocks : anyOccupied(pathMask, inflate(RectOf(blocks[i]), m))}
PairsBothInflated(blocks, m) ==
    {p \in (DOMAIN blocks) \X (DOMAIN blocks) :
        /\ p[1] < p[2]
        /\ aabbOverlap(inflate(RectOf(blocks[p[1]]), m), inflate(RectOf(blocks[p[2]]), m))}

\* C13 (as stated): clearanceViolations is the number of blocks whose
\* minAisle-inflated rect covers an occupied path cell plus the number of
\* unordered pairs of blocks whose rects, both inflated by minAisle, overlap.
C13_ClearanceCountsBothInflated ==
    call.fn = "scoreLayout" =>
        call.result.clearanceViolations =
            Cardinality(NearPath(call.blocks, ctx.minAisle))
            + Cardinality(PairsBothInflated(call.blocks, ctx.minAisle))

\* Two calls on one context, the earlier one on a list with no path overlap
\* and no clearance violation.
ScoredTwice == call.fn = "scoreLayout" /\ call.before.fn = "scoreLayout"
Ids(blocks) == {blocks[k].id : k \in DOMAIN blocks}
BeforeClean ==
    /\ call.before.result.overlapWithPath = 0
    /\ call.before.result.clearanceViolations = 0
NowViolating ==
    call.result.overlapWithPath > 0 \/ call.result.clearanceViolations > 0
\* The sum of the absolute adjacency weights: no two lists differ by more in
\* adjacencyHits.
AdjacencySpan ==
    SumOver(ctx.adjacency.entries, [e \in ctx.adjacency.entries |-> Abs(e[3])])
FlowsNonNegative == \A e \in ctx.flows.entries : e[3] >= 0

\* C14 (as stated): with the default weights, on one context, every list with
\* a path overlap or a clearance violation scores strictly above every list
\* over the same ids with neither, whatever the flow rates.
C14_ViolationsAlwaysScoreWorse ==
    (ScoredTwice /\ ctx.weights = << >>
        /\ Ids(call.blocks) = Ids(call.before.blocks)
        /\ BeforeClean /\ NowViolating) =>
        call.result.total > call.before.result.total

\* C14 (amended): the same, for non-negative flow rates under which the mhc
\* of the list without violations is below 5e5 - 1e3 * (the sum of the
\* absolute adjacency weights).
C14_ViolationsScoreWorseUnderSmallFlows ==
    (ScoredTwice /\ ctx.weights = << >>
        /\ Ids(call.blocks) = Ids(call.before.blocks)
        /\ BeforeClean /\ NowViolating
        /\ FlowsNonNegative
        /\ call.before.result.mhc < Metre * (500000 - 1000 * AdjacencySpan)) =>
        call.result.total > call.before.result.total

\* C14 witness: under flows and an adjacency table, a list with a clearance
\* violation and the lower mhc was scored after one with no violation and
\* the higher mhc, and has the larger total.
C14_Witness ==
    /\ ScoredTwice /\ ctx.weights = << >>
    /\ Ids(call.blocks) = Ids(call.before.blocks)
    /\ BeforeClean /\ NowViolating
    /\ ctx.flows.given /\ ctx.adjacency.given
    /\ call.before.result.mhc < Metre * (500000 - 1000 * AdjacencySpan)
    /\ call.result.mhc < call.before.result.mhc
    /\ call.result.total > call.before.result.total

\* The later list is the earlier one with one block moved.
OneBlockMoved ==
    /\ Len(call.blocks) = Len(call.before.blocks)
    /\ \E k \in DOMAIN call.blocks :
          /\ call.blocks[k] # call.before.blocks[k]
          /\ [call.blocks[k] EXCEPT !.x = 0, !.y = 0]
               = [call.before.blocks[k] EXCEPT !.x = 0, !.y = 0]
          /\ \A m \in DOMAIN call.blocks : m # k => call.blocks[m] = call.before.blocks[m]
\* Some pair of the later list is closer than minAisle.
PairTooClose ==
    \E i \in DOMAIN call.blocks, j \in DOMAIN call.blocks :
        /\ i < j
        /\ aabbOverlap(inflate(RectOf(call.blocks[i]), ctx.minAisle), RectOf(call.blocks[j]))

\* C15 (as stated): moving one block of a list without violations so that a
\* pair violates the clearance, all else fixed, strictly raises the total.
C15_ClearanceViolationRaisesTotal ==
    (ScoredTwice /\ BeforeClean /\ OneBlockMoved /\ PairTooClose) =>
        call.result.total > call.before.result.total

\* C15 (amended): the same, for non-negative flow rates and weights with
\* lambdaClear above the mhc before the move plus lambdaAdj * (the sum of the
\* absolute adjacency weights).
C15_ClearanceViolationRaisesTotalUnderSmallFlows ==
    (ScoredTwice /\ BeforeClean /\ OneBlockMoved /\ PairTooClose
        /\ FlowsNonNegative
        /\ Weight(ctx, "lambdaPath") >= 0 /\ Weight(ctx, "lambdaAdj") >= 0
        /\ Metre * Weight(ctx, "lambdaClear")
             > call.before.result.mhc + Metre * Weight(ctx, "lambdaAdj") * AdjacencySpan) =>
        call.result.total > call.before.result.total

\* C15 witness: under flows, the second of two blocks 2 m apart was moved to
\* half a metre from the first; mhc fell, the total rose.
C15_Witness ==
    /\ ScoredTwice /\ BeforeClean /\ OneBlockMoved /\ PairTooClose
    /\ ctx.flows.given /\ call.before.result.mhc > 0
    /\ Metre * Weight(ctx, "lambdaClear")
         > call.before.result.mhc + Metre * Weight(ctx, "lambdaAdj") * AdjacencySpan
    /\ call.before.blocks = ScoreFar /\ call.blocks = ScoreClose
    /\ call.result.mhc < call.before.result.mhc
    /\ call.result.total > call.before.result.total

\* The weight in force: the caller's when ctx.weights has one, else the
\* default the claim names.
Lambda(k, default) == IF k \in DOMAIN ctx.weights THEN ctx.weights[k] ELSE default

TwiceCentreDistance(a, b) ==
    Abs((2 * a.x + a.w) - (2 * b.x + b.w)) + Abs((2 * a.y + a.h) - (2 * b.y + b.h))
\* The block of a list with a given id (the lists scored have no id twice).
BlockOf(blocks, id) == blocks[CHOOSE k \in DOMAIN blocks : blocks[k].id = id]
\* The flow entries that count: from one block of the list to another.
FlowsBetween(blocks) ==
    {e \in ctx.flows.entries : e[1] # e[2] /\ e[1] \in Ids(blocks) /\ e[2] \in Ids(blocks)}

\* C17: mhc is the sum over the directed flow entries (i, j), i # j, both ids
\* in the list, of flow(i, j) times the Manhattan distance of the centres of
\* blocks i and j; other entries add 0; mhc is 0 without ctx.flows; for the
\* example A, B, F[A][B] = 5 it is 100.
C17_MhcIsFlowTimesCentreDistance ==
    call.fn = "scoreLayout" =>
        /\ 2 * call.result.mhc =
              SumOver(FlowsBetween(call.blocks),
                      [e \in FlowsBetween(call.blocks) |->
                          e[3] * TwiceCentreDistance(BlockOf(call.blocks, e[1]),
                                                     BlockOf(call.blocks, e[2]))])
        /\ ~ctx.flows.given => call.result.mhc = 0
        /\ (call.blocks = ScoreExample /\ ctx.flows = ScoreExampleFlows) =>
              call.result.mhc = 100 * Metre

\* C17 witness: the example was scored: A = {0,0,10,10}, B = {20,0,10,10},
\* F[A][B] = 5, mhc = 100.
C17_Witness ==
    /\ call.fn = "scoreLayout"
    /\ call.blocks = <<Block("A", "a", 0, 0, 10 * Metre, 10 * Metre),
                       Block("B", "b", 20 * Metre, 0, 10 * Metre, 10 * Metre)>>
    /\ ctx.flows.entries = {<<"A", "B", 5>>}
    /\ call.result.mhc = 100 * Metre

\* C17, second witness: blocks of different sizes were scored under flows in
\* both directions, a flow from a block to itself and a flow to an id no
\* block has.
C17_WitnessMixed ==
    /\ call.fn = "scoreLayout"
    /\ call.blocks = PlanPair
    /\ \E e \in ctx.flows.entries : e[1] = e[2]
    /\ \E e \in ctx.flows.entries : e[2] \notin Ids(call.blocks)
    /\ 2 * call.result.mhc = (1 + 2) * 5 * Metre

\* The positions in a list of the blocks of a category, and the first of
\* them.
Positions(blocks, cat) == {k \in DOMAIN blocks : blocks[k].key = cat}
FirstOf(blocks, cat) ==
    blocks[CHOOSE k \in Positions(blocks, cat) : \A m \in Positions(blocks, cat) : k <= m]
Largest(S) == CHOOSE v \in S : \A u \in S : u <= v
\* What the key "catA-catB" of weight w adds for a list.
AdjacencyTerm(blocks, e) ==
    IF Positions(blocks, e[1]) = {} \/ Positions(blocks, e[2]) = {} THEN 0
    ELSE LET a == FirstOf(blocks, e[1])
             b == FirstOf(blocks, e[2])
         IN  IF TwiceCentreDistance(a, b) <= 2 * 3 * Largest({a.w, a.h, b.w, b.h})
             THEN e[3] ELSE 0

\* C18: adjacencyHits is the sum over the keys "catA-catB" of the key's
\* weight when the first block of catA and the first block of catB in list
\* order exist and their centres are at most 3 * max(wA, hA, wB, hB) apart,
\* and 0 otherwise; later blocks of a category have no part in it.
C18_AdjacencyUsesFirstOfCategory ==
    call.fn = "scoreLayout" =>
        call.result.adjacencyHits =
            SumOver(ctx.adjacency.entries,
                    [e \in ctx.adjacency.entries |-> AdjacencyTerm(call.blocks, e)])

\* C18 witness: a list with two blocks of one category was scored in two
\* orders, and the two calls differ in adjacencyHits.
C18_Witness ==
    /\ ScoredTwice
    /\ Len(call.blocks) = Len(call.before.blocks)
    /\ {call.blocks[k] : k \in DOMAIN call.blocks}
         = {call.before.blocks[k] : k \in DOMAIN call.before.blocks}
    /\ \E cat \in {"a", "b"} : Cardinality(Positions(call.blocks, cat)) > 1
    /\ call.result.adjacencyHits # call.before.result.adjacencyHits

\* ---------------------------------------------- observed optimizer runs
\* The runs of SpecAccept: no block, one block under the default cooling and
\* under a cooling of 0, two blocks without aisle under a cooling of one half,
\* two blocks that overlap, two blocks under an aisle of 0.2 m.
AcceptScenarios ==
    {[plan |-> PlanEmpty, minAisle |-> Metre, adjacency |-> NoTable,
      opts |-> Opts(PairIterations)],
     [plan |-> PlanSingle, minAisle |-> Metre, adjacency |-> NoTable,
      opts |-> Opts(PairIterations)],
     [plan |-> PlanSingle, minAisle |-> Metre, adjacency |-> NoTable,
      opts |-> OptsAll(PairIterations, [n |-> 0, d |-> 1])],
     [plan |-> PlanPair, minAisle |-> 0, adjacency |-> NoTable,
      opts |-> OptsAll(PairIterations, [n |-> 1, d |-> 2])],
     [plan |-> PlanOverlap, minAisle |-> 0, adjacency |-> Table({<<"a", "b", 1>>}),
      opts |-> Opts(PairIterations)],
     [plan |-> PlanPair, minAisle |-> 2 * Tenth, adjacency |-> NoTable,
      opts |-> Opts(PairIterations)]}

InitAccept == InitOptimizer({1}, AcceptScenarios)

\* Call r runs one iteration of its loop; call keeps the draws it made.
IterateObserved(r) ==
    /\ runs[r].pc = "loop"
    /\ runs[r].iter < runs[r].iterations
    /\ \E g \in randInt(NumGens), u \in AcceptDraws :
       \E k1 \in FirstDraws(g, Len(runs[r].bestBlocks)),
          k2 \in SecondDraws(g, Len(runs[r].bestBlocks)) :
          LET real == IterateRun(heap, r, runs[r], initial, ctx, pathMask, g, k1, k2, u)
              own == IterateRun(solo[r].heap, r, solo[r].st, initial, ctx, pathMask, g, k1, k2, u)
          IN  /\ heap' = real.heap
              /\ runs' = [runs EXCEPT ![r] = real.st]
              /\ solo' = [solo EXCEPT ![r] = own]
              /\ call' = [fn |-> "iterate", run |-> r, g |-> g, k1 |-> k1, k2 |-> k2, u |-> u]
    /\ UNCHANGED <<initial, ctx, pathMask, gridVars, nudge>>

IterateObservedSome == \E r \in DOMAIN runs : IterateObserved(r)

NextAccept == StartSome \/ IterateObservedSome \/ FinishSome

SpecAccept == InitAccept /\ [][NextAccept]_vars

\* ---------------------------------------------------------- claims C19-C20
\* The iteration of call r that the step takes, with the draws call' keeps.
ObservedIteration(r) ==
    /\ runs[r].pc = "loop"
    /\ runs'[r].pc = "loop"
    /\ runs'[r].iter = runs[r].iter + 1
    /\ call'.fn = "iterate"
    /\ call'.run = r

\* What the generator the observed iteration of call r picked returns.
ObservedCandidate(r) ==
    gens(call'.g, heap, r, runs[r].bestBlocks, runs[r].grid, call'.k1, call'.k2)

\* The generator returned the array it was given, no block of it changed and
\* none allocated, labelled "noop".
SameArrayNoop(r) ==
    /\ ObservedCandidate(r).blocks = runs[r].bestBlocks
    /\ ObservedCandidate(r).heap = heap
    /\ ObservedCandidate(r).move = <<"noop">>

C19_GeneratorsNoop ==
    \A r \in DOMAIN runs :
        ObservedIteration(r) =>
            /\ Len(runs[r].bestBlocks) = 0 => SameArrayNoop(r)
            /\ (Len(runs[r].bestBlocks) = 1 /\ call'.g \in {0, 3}) => SameArrayNoop(r)

C19_DegenerateRun ==
    \A r \in DOMAIN runs :
        Len(initial.blocks) <= 1 =>
            /\ runs[r].pc = "loop" => Len(runs[r].bestBlocks) = Len(initial.blocks)
            /\ Done(r) =>
                  /\ runs[r].iter = runs[r].iterations
                  /\ runs[r].ncand = runs[r].iterations
                  /\ Len(Returned(r).bestPlan.blocks) = Len(initial.blocks)

\* C19: with no block every generator, and with one block swap and
\* pullTogether, return the very array they were given labelled "noop"; a
\* call on a Plan of no or one block runs all its iterations and returns a
\* bestPlan with as many blocks as the initial Plan.
C19_DegenerateInputsHandled == [] C19_DegenerateRun /\ [][C19_GeneratorsNoop]_vars

\* C19 witness: a call on a Plan of one block has returned after at least
\* two iterations, one of which accepted a "noop" candidate and one a move.
C19_Witness ==
    \E r \in DOMAIN runs :
        /\ Done(r)
        /\ Len(initial.blocks) = 1
        /\ runs[r].iterations >= 2
        /\ call.fn = "iterate"
        /\ "noop" \in MoveKinds(Returned(r).history)
        /\ MoveKinds(Returned(r).history) # {"noop"}

\* C19 witness: a call on a Plan of no block has returned after at least two
\* iterations, every one of which accepted its "noop" candidate.
C19_WitnessEmpty ==
    \E r \in DOMAIN runs :
        /\ Done(r)
        /\ Len(initial.blocks) = 0
        /\ runs[r].iterations >= 2
        /\ call.fn = "iterate"
        /\ Len(Returned(r).history) = runs[r].iterations
        /\ MoveKinds(Returned(r).history) = {"noop"}

\* The blocks of the observed candidate, its legality and its total.
CandidateBlocksOf(r) == Deref(ObservedCandidate(r).heap, ObservedCandidate(r).blocks)
PassesGate(r) == isPlanLegal(CandidateBlocksOf(r), ctx, pathMask)
CandidateTotal(r) == scoreLayout(CandidateBlocksOf(r), ctx, pathMask).total

\* The observed draw is below exp(-(candidate - best) / max(1, best)) *
\* temperature, for a candidate whose total is not below the best: a draw
\* next to 0 is below it when the temperature is positive, a draw next to 1
\* when the exponential is 1 and the temperature at least 1.
DrawBelow(r) ==
    \/ /\ call'.u = "lo"
       /\ TempPositive(runs[r].cooling, runs[r].tempPow)
    \/ /\ call'.u = "hi"
       /\ CandidateTotal(r) = runs[r].best.total
       /\ TempAtLeastOne(runs[r].cooling, runs[r].tempPow)

\* The step made the observed candidate the best and appended one entry.
Accepted(r) ==
    /\ runs'[r].bestBlocks = ObservedCandidate(r).blocks
    /\ Deref(heap', runs'[r].bestBlocks) = CandidateBlocksOf(r)
    /\ runs'[r].best.total = CandidateTotal(r)
    /\ Len(runs'[r].history) = Len(runs[r].history) + 1
    /\ SubSeq(runs'[r].history, 1, Len(runs[r].history)) = runs[r].history
    /\ runs'[r].history[Len(runs'[r].history)].score = CandidateTotal(r)
    /\ runs'[r].history[Len(runs'[r].history)].move = ObservedCandidate(r).move
    /\ runs'[r].history[Len(runs'[r].history)].plan.blocks = ObservedCandidate(r).blocks

\* The step left the best blocks, the best score and the history alone.
NotAccepted(r) ==
    /\ runs'[r].bestBlocks = runs[r].bestBlocks
    /\ Deref(heap', runs'[r].bestBlocks) = Deref(heap, runs[r].bestBlocks)
    /\ runs'[r].best = runs[r].best
    /\ runs'[r].history = runs[r].history

C20_Step ==
    \A r \in DOMAIN runs :
        ObservedIteration(r) =>
            /\ (PassesGate(r) /\ CandidateTotal(r) < runs[r].best.total) => Accepted(r)
            /\ (PassesGate(r) /\ CandidateTotal(r) >= runs[r].best.total /\ DrawBelow(r))
                  => Accepted(r)
            /\ (PassesGate(r) /\ CandidateTotal(r) >= runs[r].best.total /\ ~DrawBelow(r))
                  => NotAccepted(r)
            /\ ~PassesGate(r) => NotAccepted(r)

\* C20: in an iteration a candidate that passes the gate with a total
\* strictly below the best total is accepted whatever the draw and the
\* temperature; one whose total is not lower is accepted only when the draw
\* is below exp(-(candidate - best) / max(1, best)) * temperature; an
\* accepted candidate becomes bestBlocks and bestScore and adds exactly one
\* history entry; a gate rejection or a failed draw leaves all three alone.
C20_AcceptanceStep == [][C20_Step]_vars

\* C20 witness: a call on two blocks has accepted a better candidate in its
\* first iteration and, on a low draw at temperature 1/2, a worse one in its
\* second.
C20_Witness ==
    \E r \in DOMAIN runs :
        /\ runs[r].pc = "loop"
        /\ call.fn = "iterate"
        /\ call.u = "lo"
        /\ Len(runs[r].history) = 2
        /\ runs[r].history[1].score < scoreLayout(Deref(heap, initial.blocks), ctx, pathMask).total
        /\ runs[r].history[2].score > runs[r].history[1].score
        /\ runs[r].best.total = runs[r].history[2].score

\* C20 witness: the same call turned the worse candidate down on a high
\* draw and kept the best of its first iteration.
C20_WitnessKept ==
    \E r \in DOMAIN runs :
        /\ runs[r].pc = "loop"
        /\ call.fn = "iterate"
        /\ call.u = "hi"
        /\ call.g = 1
        /\ Len(initial.blocks) = 2
        /\ runs[r].iter = 2
        /\ Len(runs[r].history) = 1
        /\ runs[r].history[1].plan.id[3] = 0
        /\ runs[r].best.total = runs[r].history[1].score

\* C20 witness: under a cooling of 0 a candidate equal to the best was turned
\* down on a low draw, the temperature being 0 from the second iteration on.
C20_WitnessCold ==
    \E r \in DOMAIN runs :
        /\ runs[r].pc = "loop"
        /\ call.fn = "iterate"
        /\ call.u = "lo"
        /\ call.g = 0
        /\ Len(initial.blocks) = 1
        /\ runs[r].cooling.n = 0
        /\ runs[r].iter = 2
        /\ Len(runs[r].history) = 1

\* ---------------------------------------------------------------- claim C21
C21_ScoresMatch ==
    \A r \in DOMAIN runs :
        \A k \in DOMAIN runs[r].history :
            runs[r].history[k].score
                = scoreLayout(Deref(heap, runs[r].history[k].plan.blocks), ctx, pathMask).total

C21_EntriesKept ==
    \A r \in DOMAIN runs :
        runs[r].pc = "loop" =>
            /\ Len(runs'[r].history) >= Len(runs[r].history)
            /\ \A k \in DOMAIN runs[r].history :
                  /\ runs'[r].history[k] = runs[r].history[k]
                  /\ Deref(heap', runs'[r].history[k].plan.blocks)
                        = Deref(heap, runs[r].history[k].plan.blocks)

\* C21: an entry of the history keeps the blocks it was appended with, field
\* by field, through every later step of the call, and the score it records
\* is scoreLayout of those blocks.
C21_HistorySnapshotsStable == [] C21_ScoresMatch /\ [][C21_EntriesKept]_vars

\* C21 witness: a call has returned a history of at least two entries, the
\* blocks of the first differing from those of a later one and from the
\* returned best.
C21_Witness ==
    \E r \in DOMAIN runs :
        /\ Done(r)
        /\ Len(Returned(r).history) >= 2
        /\ \E k \in DOMAIN Returned(r).history :
              Deref(heap, Returned(r).history[k].plan.blocks)
                 # Deref(heap, Returned(r).history[1].plan.blocks)
        /\ Deref(heap, Returned(r).bestPlan.blocks)
              # Deref(heap, Returned(r).history[1].plan.blocks)

\* ---------------------------------------------------------- claims C22-C23
\* The number of steps of pathMask.cellSize between start and p when p lies
\* on the lattice of such steps around start, and -1 when it does not.
StepsFromStart(n, p) ==
    LET step == pathMask.cellSize
    IN  IF (p.x - n.start.x) % step = 0 /\ (p.y - n.start.y) % step = 0
        THEN (Abs(p.x - n.start.x) + Abs(p.y - n.start.y)) \div step
        ELSE -1

\* C22: a search that returns a rect other than its illegal start returns
\* one k > 0 steps of pathMask.cellSize from start, and no position fewer
\* than k steps from start (all of them within maxRadius) passes
\* checkPlacementLegality.
C22_NudgeReturnsNearest ==
    (nudge.pc = "done" /\ nudge.result # nudge.start
        /\ ~checkPlacementLegality(nudge.start, nudge.others, pathMask, LegalityOptions).ok) =>
        /\ StepsFromStart(nudge, nudge.result) > 0
        /\ nudge.result \in NudgeReach(nudge)
        /\ \A p \in NudgeReach(nudge) :
              StepsFromStart(nudge, p) < StepsFromStart(nudge, nudge.result) =>
                  ~checkPlacementLegality(p, nudge.others, pathMask, LegalityOptions).ok

\* C22 witness: a search returned a position two steps from its start, every
\* position one step away being illegal.
C22_Witness ==
    /\ nudge.pc = "done"
    /\ nudge.result # nudge.start
    /\ StepsFromStart(nudge, nudge.result) = 2
    /\ Cardinality({p \in NudgeReach(nudge) : StepsFromStart(nudge, p) = 1}) = 4

\* The search tested no position twice, tested and returned positions of the
\* diamond only, and tested no more positions than the diamond holds.
NudgeBounded(n) ==
    /\ \A a, b \in DOMAIN n.tested : n.tested[a] = n.tested[b] => a = b
    /\ \A a \in DOMAIN n.tested : n.tested[a] \in {nudgeKey(p) : p \in NudgeReach(n)}
    /\ n.result \in NudgeReach(n)
    /\ Len(n.tested) <= Cardinality(NudgeReach(n))

\* C23 (as stated): for every maxRadius a search ends, having tested each
\* position at most once, only positions within Manhattan distance
\* maxRadius of start, and no more of them than the diamond has lattice
\* points.
C23_NudgeTerminatesBounded ==
    /\ [](nudge.pc # "idle" => NudgeBounded(nudge))
    /\ (nudge.pc = "loop") ~> (nudge.pc = "done")

\* C23 (amended): the same for every maxRadius >= 0; under a negative
\* maxRadius the search still ends, after testing start alone.
C23_NudgeTerminatesBoundedFromZero ==
    /\ []((nudge.pc # "idle" /\ nudge.maxRadius >= 0) => NudgeBounded(nudge))
    /\ []((nudge.pc # "idle" /\ nudge.maxRadius < 0) => Len(nudge.tested) <= 1)
    /\ (nudge.pc = "loop") ~> (nudge.pc = "done")

\* C23 witness: a search over the largest diamond found no legal position:
\* it tested every lattice point of the diamond, once, and returned start.
C23_Witness ==
    /\ nudge.pc = "done"
    /\ nudge.maxRadius = MaxRadiusCells * pathMask.cellSize
    /\ nudge.result = nudge.start
    /\ Len(nudge.tested) = Cardinality(NudgeReach(nudge))
    /\ Len(nudge.tested) > 4

\* ---------------------------------------------------------------- claim C24
\* The corner (x, y) of the rect lies in a cell of the grid.
CornerInGrid(g, rect) ==
    inBounds(g, Floor(rect.x, g.cellSize), Floor(rect.y, g.cellSize))

C24_ZeroRectReadsCornerOnly ==
    (gridCall.op = "anyOccupied" /\ (gridCall.rect.w = 0 \/ gridCall.rect.h = 0)) =>
        (gridCall.result <=> ~CornerInGrid(grid, gridCall.rect))

C24_ZeroRectFillsNothing ==
    (gridCall'.op = "fillRect" /\ (gridCall'.rect.w = 0 \/ gridCall'.rect.h = 0)) =>
        grid' = grid

\* C24 (as stated): a rect of zero width or zero height covers no cell:
\* fillRect of it changes nothing, and anyOccupied of it is false when its
\* corner is inside the grid, whatever is occupied and aligned or not, and
\* true when its corner is outside the grid.
C24_ZeroRectCoversNoCell ==
    [] C24_ZeroRectReadsCornerOnly /\ [][C24_ZeroRectFillsNothing]_vars

\* ----------------------------------------------------- generator actions
\* Block lists handed to the generators one call at a time: the lists of the
\* optimizer runs, a block left of and a block above the origin, two blocks
\* closer than a block is wide, a block that is not square.
MoveLists ==
    {PlanEmpty, PlanSingle, PlanPair,
     <<Block("A", "a", -Metre, Metre, Metre, Metre),
       Block("B", "b", 2 * Metre, -(Metre \div 2), Metre, 2 * Metre)>>,
     <<Block("A", "a", 0, Metre, Metre, Metre),
       Block("B", "b", Metre \div 2, 2 * Metre, 2 * Metre, Metre),
       Block("C", "a", 3 * Metre, 0, Metre, Metre)>>}

MoveSteps == {Metre \div 2, Metre}
MoveAisles == {0, Tenth, 2 * Tenth, Metre}

InitMoves ==
    /\ \E blocks \in MoveLists :
          /\ heap = <<blocks, << >> >>
          /\ initial = [id |-> "plan", blocks |-> [k \in DOMAIN blocks |-> <<1, k>>]]
    /\ \E m \in MoveAisles : ctx = [Context(m, NoTable) EXCEPT !.site = FullSite]
    /\ pathMask \in {EmptyMask, AisleMask}
    /\ runs = << >> /\ solo = << >>
    /\ GridAtRest
    /\ LegalAtRest

\* The array the next generator call is given: the one the call before it
\* returned, or the initial one.
MoveInput == IF call.fn = "none" THEN initial.blocks ELSE call.output
MoveCallable == call.fn = "none" \/ (call.fn = "move" /\ call.depth < 2)
MoveDepth == IF call.fn = "none" THEN 1 ELSE call.depth + 1

\* One call g(blocks) of a generator, the caller keeping what it returned.
MoveCall(gen, res, gridStep, k1, k2) ==
    /\ heap' = res.heap
    /\ call' = [fn |-> "move", gen |-> gen, gridStep |-> gridStep, k1 |-> k1, k2 |-> k2,
                input |-> MoveInput, before |-> Deref(heap, MoveInput),
                output |-> res.blocks, move |-> res.move, depth |-> MoveDepth]
    /\ UNCHANGED <<initial, ctx, pathMask, runs, solo, gridVars, nudge>>

GenSwap ==
    /\ MoveCallable
    /\ \E k1 \in FirstDraws(0, Len(MoveInput)), k2 \in SecondDraws(0, Len(MoveInput)) :
          MoveCall("swap", genSwap(heap, 2, MoveInput, k1, k2), 0, k1, k2)

GenShift ==
    /\ MoveCallable
    /\ \E gridStep \in MoveSteps :
       \E k1 \in FirstDraws(1, Len(MoveInput)), k2 \in SecondDraws(1, Len(MoveInput)) :
          MoveCall("shift", genShift(heap, 2, MoveInput, gridStep, k1, k2), gridStep, k1, k2)

GenRotate ==
    /\ MoveCallable
    /\ \E k1 \in FirstDraws(2, Len(MoveInput)) :
          MoveCall("rotate", genRotate(heap, 2, MoveInput, k1), 0, k1, 0)

GenPullTogether ==
    /\ MoveCallable
    /\ \E k1 \in FirstDraws(3, Len(MoveInput)) :
          MoveCall("pullTogether", genPullTogether(heap, 2, MoveInput, k1), 0, k1, 0)

NextMoves == GenSwap \/ GenShift \/ GenRotate \/ GenPullTogether

SpecMoves == InitMoves /\ [][NextMoves]_vars

\* ---------------------------------------------------------------- claim C25
\* What the last shift call did: the blocks it was given, the blocks it
\* returned, the index and the direction it drew.
ShiftCalled == call.fn = "move" /\ call.gen = "shift" /\ Len(call.before) > 0
ShiftFrame ==
    LET after == Deref(heap, call.output)
        i == call.k1 + 1
    IN  /\ Len(after) = Len(call.before)
        /\ \A k \in DOMAIN after : k # i => after[k] = call.before[k]
        /\ after[i].w = call.before[i].w
        /\ after[i].h = call.before[i].h
        /\ after[i].id = call.before[i].id

\* C25 (as stated): shift changes the drawn block only, and of it only the
\* coordinate along the drawn direction, which becomes max(0, old +
\* d*gridStep); the other coordinate stays as it was, negative or not.
C25_ShiftMovesOneAxis ==
    ShiftCalled =>
        LET after == Deref(heap, call.output)
            i == call.k1 + 1
            d == dirs[call.k2 + 1]
        IN  /\ ShiftFrame
            /\ d[1] # 0 => /\ after[i].x = Max2(0, call.before[i].x + d[1] * call.gridStep)
                           /\ after[i].y = call.before[i].y
            /\ d[2] # 0 => /\ after[i].y = Max2(0, call.before[i].y + d[2] * call.gridStep)
                           /\ after[i].x = call.before[i].x

\* C25 (amended): the same, but the coordinate across the drawn direction
\* becomes max(0, old): it stays as it was unless it was negative.
C25_ShiftMovesOneAxisClampsBoth ==
    ShiftCalled =>
        LET after == Deref(heap, call.output)
            i == call.k1 + 1
            d == dirs[call.k2 + 1]
        IN  /\ ShiftFrame
            /\ d[1] # 0 => /\ after[i].x = Max2(0, call.before[i].x + d[1] * call.gridStep)
                           /\ after[i].y = Max2(0, call.before[i].y)
            /\ d[2] # 0 => /\ after[i].y = Max2(0, call.before[i].y + d[2] * call.gridStep)
                           /\ after[i].x = Max2(0, call.before[i].x)

\* C25 witness: a block at a negative x was shifted along y: its y moved by
\* the step and its x came back to 0.
C25_Witness ==
    /\ ShiftCalled
    /\ dirs[call.k2 + 1][2] # 0
    /\ call.before[call.k1 + 1].x < 0
    /\ Deref(heap, call.output)[call.k1 + 1].x = 0
    /\ Deref(heap, call.output)[call.k1 + 1].y # call.before[call.k1 + 1].y

\* ---------------------------------------------------------------- claim C26
\* The cells of a grid, the rect a cell covers, and the bounding box of the
\* segment from p to q inflated by width/2 on all sides.
GridCells(g) == (0..(g.cols - 1)) \X (0..(g.rows - 1))
CellRect(g, cell) == Rect(cell[1] * g.cellSize, cell[2] * g.cellSize, g.cellSize, g.cellSize)
SegmentBox(p, q, width) ==
    Rect(Min2(p[1], q[1]) - width \div 2, Min2(p[2], q[2]) - width \div 2,
         Abs(p[1] - q[1]) + 2 * (width \div 2), Abs(p[2] - q[2]) + 2 * (width \div 2))

\* The cell, its border included, holds a point of the axis-aligned segment
\* from p to q.
CellOnSegment(g, cell, p, q) ==
    /\ p[1] = q[1] \/ p[2] = q[2]
    /\ cell[1] * g.cellSize <= Max2(p[1], q[1])
    /\ Min2(p[1], q[1]) <= (cell[1] + 1) * g.cellSize
    /\ cell[2] * g.cellSize <= Max2(p[2], q[2])
    /\ Min2(p[2], q[2]) <= (cell[2] + 1) * g.cellSize

C26_Step ==
    gridCall'.op = "addPolyline" =>
        LET pts == gridCall'.points
            width == gridCall'.width
        IN  /\ \A i \in 1..(Len(pts) - 1) : \A cell \in GridCells(grid) :
                  /\ aabbOverlap(CellRect(grid, cell), SegmentBox(pts[i], pts[i + 1], width))
                        => get(grid', cell[1], cell[2]) = 1
                  /\ (width > 0 /\ CellOnSegment(grid, cell, pts[i], pts[i + 1]))
                        => get(grid', cell[1], cell[2]) = 1
            /\ \A cell \in GridCells(grid) :
                  get(grid, cell[1], cell[2]) # 0 => get(grid', cell[1], cell[2]) # 0
            /\ Len(pts) < 2 => grid' = grid
            /\ grid'.cols = grid.cols /\ grid'.rows = grid.rows

\* C26: addPolyline marks every cell that the bounding box of a segment,
\* inflated by width/2 on all sides, overlaps, so with a positive width every
\* cell an axis-aligned segment runs through or along; it clears no cell;
\* given fewer than two points it changes nothing.
C26_PolylineMarksCorridor == [][C26_Step]_vars

\* C26 witness: a polyline of two segments with a positive width was added
\* to a grid of several cells, one of which it left unoccupied.
C26_Witness ==
    /\ gridCall.op = "addPolyline"
    /\ Len(gridCall.points) = 3
    /\ gridCall.width > 0
    /\ \E a, b \in GridCells(grid) : get(grid, a[1], a[2]) = 1 /\ get(grid, b[1], b[2]) = 0

\* ------------------------------------------- the gate, alone and in a run
\* The legality calls on their own together with the observed optimizer
\* runs: a behaviour is one or the other.
InitGate == InitLegal \/ InitAccept
GateAlone == runs = << >> /\ NextLegal
GateInRun == runs # << >> /\ NextAccept
NextGate == GateAlone \/ GateInRun
SpecGate == InitGate /\ [][NextGate]_vars

\* ---------------------------------------------------------------- claim C27
\* The rect inflated by m reaches outside [0, cols*cellSize) x
\* [0, rows*cellSize), what the cells of the mask cover.
ReachesOutside(mask, rect, m) ==
    \/ rect.x - m < 0
    \/ rect.y - m < 0
    \/ rect.x + rect.w + m > mask.cols * mask.cellSize
    \/ rect.y + rect.h + m > mask.rows * mask.cellSize

\* C27: checkPlacementLegality and isPlanLegal refuse every rect that,
\* inflated by minAisle, reaches outside what the grid covers, whatever the
\* mask holds and wherever the site lies; so under a positive minAisle no x
\* or y below minAisle is legal, and no block of a history entry has one.
C27_OutsideGridIsIllegal ==
    /\ (call.fn = "checkPlacementLegality"
          /\ ReachesOutside(pathMask, call.candidate, ctx.minAisle)) => ~call.result.ok
    /\ (call.fn = "isPlanLegal"
          /\ \E k \in DOMAIN call.blocks :
                ReachesOutside(pathMask, call.blocks[k], ctx.minAisle)) => ~call.result
    /\ \A r \in DOMAIN runs : \A k \in DOMAIN runs[r].history :
          LET blocks == Deref(heap, runs[r].history[k].plan.blocks)
          IN  \A b \in DOMAIN blocks :
                 /\ ~ReachesOutside(pathMask, RectOf(blocks[b]), ctx.minAisle)
                 /\ blocks[b].x >= ctx.minAisle
                 /\ blocks[b].y >= ctx.minAisle

\* C27 witness: on a mask with no occupied cell a rect inside the site, with
\* x below a positive minAisle, was refused for its clearance to the path.
C27_Witness ==
    /\ call.fn = "checkPlacementLegality"
    /\ \A cell \in GridCells(pathMask) : get(pathMask, cell[1], cell[2]) = 0
    /\ ctx.minAisle > 0
    /\ inside(call.candidate, ctx.site)
    /\ call.candidate.x < ctx.minAisle
    /\ call.candidate.y >= ctx.minAisle
    /\ ~call.result.ok
    /\ call.result.reason = "violates aisle clearance"

\* C27 witness: a run under a positive minAisle accepted a block at x =
\* minAisle and then generated the shift that would take it below: the gate
\* refused it.
C27_WitnessRun ==
    \E r \in DOMAIN runs :
        /\ runs[r].pc = "loop"
        /\ Len(initial.blocks) = 1
        /\ ctx.minAisle > 0
        /\ call.fn = "iterate" /\ call.g = 1
        /\ runs[r].iter = 2
        /\ Len(runs[r].history) = 1
        /\ Deref(heap, runs[r].history[1].plan.blocks)[1].x = ctx.minAisle
        /\ LET cand == genShift(heap, r, runs[r].bestBlocks, runs[r].grid, call.k1, call.k2)
           IN  /\ Deref(cand.heap, cand.blocks)[1].x < ctx.minAisle
               /\ ~isPlanLegal(Deref(cand.heap, cand.blocks), ctx, pathMask)

\* ---------------------------------------------------------------- claim C28
\* The context with both penalty weights set to 0.
NoPenalty(c) ==
    [c EXCEPT !.weights =
        [k \in {"lambdaPath", "lambdaClear"} \cup DOMAIN c.weights |->
            IF k \in {"lambdaPath", "lambdaClear"} THEN 0 ELSE c.weights[k]]]

\* Whether the observed iteration of call r would accept its candidate were
\* both penalty weights 0, from the same best blocks, draw and temperature.
AcceptsWithoutPenalties(r) ==
    LET s0 == scoreLayout(CandidateBlocksOf(r), NoPenalty(ctx), pathMask).total
        b0 == scoreLayout(Deref(heap, runs[r].bestBlocks), NoPenalty(ctx), pathMask).total
    IN  /\ PassesGate(r)
        /\ \/ s0 < b0
           \/ call'.u = "lo" /\ TempPositive(runs[r].cooling, runs[r].tempPow)
           \/ call'.u = "hi" /\ s0 = b0 /\ TempAtLeastOne(runs[r].cooling, runs[r].tempPow)

C28_GatePassedHasNoPenalty ==
    \A r \in DOMAIN runs :
        (ObservedIteration(r) /\ PassesGate(r)) =>
            LET s == scoreLayout(CandidateBlocksOf(r), ctx, pathMask)
            IN  s.overlapWithPath = 0 /\ s.clearanceViolations = 0

C28_HistoryScores ==
    \A r \in DOMAIN runs : \A k \in DOMAIN runs[r].history :
        LET s == scoreLayout(Deref(heap, runs[r].history[k].plan.blocks), ctx, pathMask)
        IN  runs[r].history[k].score
               = s.mhc - Metre * Lambda("lambdaAdj", 1000) * s.adjacencyHits

C28_PenaltiesDoNotDecide ==
    \A r \in DOMAIN runs :
        ObservedIteration(r) =>
            (Len(runs'[r].history) > Len(runs[r].history) <=> AcceptsWithoutPenalties(r))

\* C28 (as stated): a block list that passes the gate scores overlapWithPath
\* 0 and clearanceViolations 0; every score in the history is mhc -
\* lambdaAdj*adjacencyHits; and lambdaPath and lambdaClear have no part in
\* which candidate is accepted: each iteration accepts exactly when it would
\* with both weights 0.
C28_PenaltyWeightsNeverMatter ==
    /\ [] C28_HistoryScores
    /\ [][C28_GatePassedHasNoPenalty /\ C28_PenaltiesDoNotDecide]_vars

\* ---------------------------------------------------------------- claim C29
\* The observed iteration of call r drew pullTogether on two blocks or more.
PulledTogether(r) ==
    /\ ObservedIteration(r)
    /\ call'.g = 3
    /\ ObservedCandidate(r).move[1] = "pullTogether"

C29_PullRejected ==
    \A r \in DOMAIN runs :
        (PulledTogether(r) /\ ctx.minAisle > Tenth) =>
            LET cand == CandidateBlocksOf(r)
                i == call'.k1 + 1
            IN  /\ cand[i + 1].x - (cand[i].x + cand[i].w) = Tenth
                /\ cand[i + 1].y = cand[i].y
                /\ ~PassesGate(r)
                /\ runs'[r].bestBlocks = runs[r].bestBlocks
                /\ Deref(heap', runs'[r].bestBlocks) = Deref(heap, runs[r].bestBlocks)
                /\ runs'[r].history = runs[r].history

C29_NoPullInHistory ==
    \A r \in DOMAIN runs :
        ctx.minAisle > Tenth => "pullTogether" \notin MoveKinds(runs[r].history)

\* C29: under a minAisle above 0.1 m a pullTogether candidate, which leaves
\* a gap of exactly 0.1 m between blocks i and i+1 at the same y, fails the
\* gate every time: no history entry carries the label pullTogether and the
\* move never changes bestBlocks.
C29_PullTogetherNeverAccepted == [] C29_NoPullInHistory /\ [][C29_PullRejected]_vars

\* C29 witness: a run on two blocks under a minAisle of 0.2 m that accepted
\* a move in its first iteration drew pullTogether in its second and kept
\* its history of one entry.
C29_Witness ==
    \E r \in DOMAIN runs :
        /\ runs[r].pc = "loop"
        /\ Len(initial.blocks) = 2
        /\ ctx.minAisle = 2 * Tenth
        /\ call.fn = "iterate" /\ call.g = 3
        /\ runs[r].iter = 2
        /\ Len(runs[r].history) = 1
        /\ runs[r].history[1].plan.id[3] = 0

\* ---------------------------------------------------------------- claim C30
\* The list has the length of the initial one and at each index a block of
\* the same id, category key and unordered pair of sides.
SameBlocksAs(blocks, first) ==
    /\ Len(blocks) = Len(first)
    /\ \A k \in DOMAIN first :
          /\ blocks[k].id = first[k].id
          /\ blocks[k].key = first[k].key
          /\ {blocks[k].w, blocks[k].h} = {first[k].w, first[k].h}
          /\ blocks[k].w * blocks[k].h = first[k].w * first[k].h

\* C30: through a call the best blocks, the blocks of every history entry
\* and the blocks of the returned bestPlan keep the length of the initial
\* list and, index by index, the id, the category key and the sides {w, h}
\* of its blocks.
C30_BlockIdentityKept ==
    \A r \in DOMAIN runs :
        LET first == Deref(heap, initial.blocks)
        IN  /\ runs[r].pc # "idle" => SameBlocksAs(Deref(heap, runs[r].bestBlocks), first)
            /\ \A k \in DOMAIN runs[r].history :
                  SameBlocksAs(Deref(heap, runs[r].history[k].plan.blocks), first)
            /\ Done(r) =>
                  /\ SameBlocksAs(Deref(heap, Returned(r).bestPlan.blocks), first)
                  /\ \A k \in DOMAIN Returned(r).history :
                        SameBlocksAs(Deref(heap, Returned(r).history[k].plan.blocks), first)

\* C30 witness: a call has returned after accepting a swap and a rotate of a
\* block that is not square, which it returns with w and h exchanged.
C30_Witness ==
    \E r \in DOMAIN runs :
        /\ Done(r)
        /\ {"swap", "rotate"} \subseteq MoveKinds(Returned(r).history)
        /\ \E k \in DOMAIN initial.blocks :
              /\ Obj(heap, initial.blocks[k]).w # Obj(heap, initial.blocks[k]).h
              /\ Obj(heap, Returned(r).bestPlan.blocks[k]).w = Obj(heap, initial.blocks[k]).h
              /\ Obj(heap, Returned(r).bestPlan.blocks[k]).h = Obj(heap, initial.blocks[k]).w

====
